---- MODULE Spec2Model ----
(***************************************************************************)
(* Verification model of tinyrange's content-addressed build engine        *)
(* (pkg/database/database.go, PackageDatabase.Build) and of its package    *)
(* planner (db/db.go, InstallationPlan.addPackage).                        *)
(***************************************************************************)
EXTENDS Integers, Sequences, FiniteSets, TLC

(***************************************************************************)
(* Bounds                                                                  *)
(***************************************************************************)
NumWorkers == 2
ArtLen == 2
NumFetchers == 3
maxParallelFetchers == 2
MaxOptions == 2
NumVersions == 2

Workers == 1..NumWorkers
Hashes == {"h1", "h2"}
Defs == {"d1", "d2", "d3"}

(***************************************************************************)
(* Build definitions                                                       *)
(***************************************************************************)
\* The BuildVm definition d3 with SetBuildTemplateMode() called on it; the
\* mode is not one of the fields of the definition.
TemplateDef == "dT"

AllDefs == Defs \cup {TemplateDef}

\* d1 and d2 are two definition values with the same canonical encoding.
HashDefinition(d) == IF d \in {"d3", TemplateDef} THEN "h2" ELSE "h1"

Redistributable(d) == d \notin {"d3", TemplateDef}

BuildStatusBuilt == "Built"
BuildStatusCached == "Cached"

(***************************************************************************)
(* State of the build engine                                               *)
(***************************************************************************)
VARIABLES
    bin,                    \* <hash>.bin      : the file, or Absent
    tmp,                    \* <hash>.bin.tmp  : the file, or Absent
    defFile,                \* hashes with a <hash>.def
    downloadedTag,          \* hashes with a <hash>.downloaded
    redistributableTag,     \* hashes with a <hash>.redistributable
    buildCache,             \* PackageDatabase.buildCache (keys)
    buildStatuses,          \* PackageDatabase.buildStatuses
    distributionServer,     \* PackageDatabase.distributionServer
    RebuildUserDefinitions, \* PackageDatabase.RebuildUserDefinitions
    worker,                 \* per worker: position in Build and its locals
    failedFresh             \* hashes whose last Build failed without a bin

(***************************************************************************)
(* State of the package planner (db/db.go)                                 *)
(***************************************************************************)
VARIABLES
    pdb,                    \* the PackageDatabase the planner searches
    plan,                   \* the InstallationPlan, or NoPlan
    pres                    \* what the last planner call returned

pvars == <<pdb, plan, pres>>

(***************************************************************************)
(* State of the definition store as GetDefinitionByHash sees it            *)
(***************************************************************************)
VARIABLES
    defContent,             \* what the bytes of <hash>.def decode to
    defDb,                  \* hashes of the definitions held in memory
    got                     \* what the last GetDefinitionByHash returned

(***************************************************************************)
(* The distribution servers                                                *)
(***************************************************************************)
VARIABLES
    health                  \* what each server answers to GET /health

gvars == <<defContent, defDb, got, health>>

(***************************************************************************)
(* State of the repository loading (db/db.go, FetchAll, StartAutoRefresh)  *)
(***************************************************************************)
VARIABLES
    fetchFails,             \* fetchers whose fetchWithKey returns an error
    fetcherPackages,        \* fetchers whose Packages have been filled
    packageMap,             \* fetchers whose packages are in db.packageMap
    fa,                     \* the goroutine that called FetchAll
    fthread,                \* FetchAll: the goroutine started per fetcher
    wg,                     \* FetchAll: the WaitGroup counter
    updateRequests,         \* StartAutoRefresh: the buffered channel
    producer,               \* StartAutoRefresh: the goroutine per fetcher
    pool                    \* StartAutoRefresh: the worker goroutines

fvars == <<fetchFails, fetcherPackages, packageMap, fa, fthread, wg,
           updateRequests, producer, pool>>

(***************************************************************************)
(* The goroutines that use db.packageMap and db.buildStatuses              *)
(***************************************************************************)
VARIABLES
    macc,                   \* per goroutine: the operation and its position
    mapMutex                \* per map: the goroutine holding its mutex, or 0

xvars == <<macc, mapMutex>>

(***************************************************************************)
(* The mirror table (database.go, AddMirror and UrlsFor)                   *)
(***************************************************************************)
VARIABLES
    mirrors,                \* PackageDatabase.mirrors
    urls                    \* what the last UrlsFor was given and returned

mvars == <<mirrors, urls>>

(***************************************************************************)
(* The virtual directory tree (filesystem/directory.go)                    *)
(***************************************************************************)
VARIABLES
    root,                   \* the memoryDirectory tree: entries and names
    dres                    \* what the last operation on the tree was given
                            \* and returned

dvars == <<root, dres>>

(***************************************************************************)
(* The web application (trweb/web.go)                                      *)
(***************************************************************************)
VARIABLES
    runningCmd,             \* WebApplication.runningCmd
    procs,                  \* the VM processes started and not killed
    started,                \* how many VM processes were started
    wres                    \* the last request and its response

wvars == <<runningCmd, procs, started, wres>>

(***************************************************************************)
(* Conditions on packages (planner2, CombineConditions)                    *)
(***************************************************************************)
VARIABLES
    cond                    \* the conditions a and b, what CombineConditions
                            \* returned for them and what Satisfies returned

cvars == <<cond>>

\* The variables of the subsystems beside the build engine, the planner and
\* the definition store.
ovars == <<fvars, xvars, mvars, dvars, wvars, cvars>>

bvars == <<bin, tmp, defFile, downloadedTag, redistributableTag,
           buildCache, buildStatuses, distributionServer,
           RebuildUserDefinitions, worker, failedFresh, pvars, gvars, ovars>>

\* A file is the number of bytes it holds and who wrote them.
Absent == [len |-> -1, src |-> "none"]
Empty == [len |-> 0, src |-> "none"]
Bytes(n, src) == [len |-> n, src |-> src]

Exists(f) == f.len >= 0

Complete(f) == f.len = ArtLen

Partial == 0..(ArtLen - 1)

NoRet == [kind |-> "none", at |-> "none"]

\* fd is the file an open handle of the worker refers to: the one named tmp,
\* the one named bin (tmp was renamed under the handle), or an unlinked one.
IdleWorker == [pc |-> "idle", def |-> "d1", always |-> FALSE,
               hasCached |-> FALSE, created |-> FALSE, fd |-> "none",
               did |-> {}, binAtStart |-> FALSE, retry |-> FALSE,
               ret |-> NoRet]

H(w) == HashDefinition(worker[w].def)

\* The part of the state a step of Build works on.
St == [bin |-> bin, tmp |-> tmp, wk |-> worker, ff |-> failedFresh]

\* Handles of hash h that refer to the file named `from` now refer to `to`.
Retarget(wk, h, from, to) ==
    [w \in Workers |->
        IF HashDefinition(wk[w].def) = h /\ wk[w].fd = from
        THEN [wk[w] EXCEPT !.fd = to] ELSE wk[w]]

\* os.Create(tmpFilename) by worker w: truncate or create, and hold a handle.
Create(st, w) ==
    LET h == HashDefinition(st.wk[w].def) IN
    [st EXCEPT !.tmp[h] = Empty, !.wk[w].fd = "tmp"]

\* Bytes written through the handle of worker w.
Write(st, w, n, src) ==
    LET h == HashDefinition(st.wk[w].def) IN
    CASE st.wk[w].fd = "tmp" -> [st EXCEPT !.tmp[h] = Bytes(n, src)]
      [] st.wk[w].fd = "bin" -> [st EXCEPT !.bin[h] = Bytes(n, src)]
      [] OTHER -> st

\* f.Close() by worker w.
CloseFd(st, w) == [st EXCEPT !.wk[w].fd = "none"]

\* os.Remove(tmpFilename)
Remove(st, h) ==
    [st EXCEPT !.tmp[h] = Absent, !.wk = Retarget(@, h, "tmp", "orphan")]

\* os.Rename(tmpFilename, filename); the caller checks that tmp exists.
Rename(st, h) ==
    [st EXCEPT !.bin[h] = st.tmp[h], !.tmp[h] = Absent,
               !.wk = Retarget(Retarget(@, h, "bin", "orphan"), h, "tmp", "bin")]

FailAts == {"def.Build", "WriteResult", "Close", "Rename"}

\* Build of worker w returns.
Ret(st, w, kind, at, events) ==
    LET wrec == st.wk[w]
        h == HashDefinition(wrec.def)
    IN  [st EXCEPT !.wk[w] = [wrec EXCEPT !.pc = "idle", !.fd = "none",
                                          !.did = @ \cup events,
                                          !.ret = [kind |-> kind, at |-> at]],
                   !.ff = IF kind = "err" /\ at \in FailAts /\ ~wrec.binAtStart
                          THEN @ \cup {h} ELSE @ \ {h}]

\* Build of worker w continues at pc.
To(st, w, pc, events) ==
    [st EXCEPT !.wk[w].pc = pc, !.wk[w].did = @ \cup events]

Commit(st) ==
    /\ bin' = st.bin
    /\ tmp' = st.tmp
    /\ worker' = st.wk
    /\ failedFresh' = st.ff
    /\ UNCHANGED <<pvars, gvars, ovars>>

Return(w, kind, at, events) == Commit(Ret(St, w, kind, at, events))

Goto(w, pc, events) == Commit(To(St, w, pc, events))

tags == <<defFile, downloadedTag, redistributableTag>>
cfg == <<distributionServer, RebuildUserDefinitions>>

\* db.updateBuildStatus(def, status)
updateBuildStatus(d, status) ==
    buildStatuses' = [buildStatuses EXCEPT ![d] = status]

\* No planner is in use.
NoPlan == [installed |-> <<>>, installedPackages |-> <<>>, Packages |-> <<>>,
           dependencyGraph |-> <<>>, queryOptions |-> <<>>, made |-> "none"]

\* No query: the name of no package and no version predicate.
NoQuery == [name |-> "", pred |-> <<>>, arch |-> "", recommended |-> FALSE]

NoRes == [op |-> "none", query |-> NoQuery,
          err |-> [kind |-> "none", wrapped |-> FALSE],
          depth |-> 0, adds |-> 0]

PlannerOff ==
    /\ pdb = 0
    /\ plan = NoPlan
    /\ pres = NoRes

NoGot == [hash |-> "none", kind |-> "none", rehash |-> "none"]

Servers == {"srv", "srv2"}

\* An answer to GET /health: a transport error, a body that cannot be read,
\* or a status with a body.
HealthAnswers ==
    [err : {"transport", "read"}, status : {0}, body : {""}]
        \cup [err : {"none"}, status : {200, 500}, body : {"OK", "other"}]

Healthy == [err |-> "none", status |-> 200, body |-> "OK"]

\* db.Fetchers, in order.
Fetchers == 1..NumFetchers

FaIdle == [pc |-> "idle", i |-> 1, NoParallel |-> FALSE, ret |-> "none"]

PoolIdle == [pc |-> "off", fetcher |-> 0]

\* No repository is being loaded.
FetchOff ==
    /\ fetchFails = {}
    /\ fetcherPackages = {}
    /\ packageMap = {}
    /\ fa = FaIdle
    /\ fthread = [f \in Fetchers |-> "none"]
    /\ wg = 0
    /\ updateRequests = <<>>
    /\ producer = [f \in Fetchers |-> "off"]
    /\ pool = [i \in 1..maxParallelFetchers |-> PoolIdle]

Maps == {"packageMap", "buildStatuses"}

\* The places of the code that use one of the two maps: the map, whether the
\* place reads or writes it, and whether it takes the mutex of the map.
MapOps ==
    [Get               |-> [map |-> "packageMap", write |-> FALSE,
                            locks |-> TRUE],
     FetchAll          |-> [map |-> "packageMap", write |-> TRUE,
                            locks |-> TRUE],
     RefreshWorker     |-> [map |-> "packageMap", write |-> TRUE,
                            locks |-> TRUE],
     StartAutoRefresh  |-> [map |-> "packageMap", write |-> TRUE,
                            locks |-> FALSE],
     updateBuildStatus |-> [map |-> "buildStatuses", write |-> TRUE,
                            locks |-> TRUE],
     GetBuildStatus    |-> [map |-> "buildStatuses", write |-> FALSE,
                            locks |-> FALSE]]

MapIdle == [op |-> "none", pc |-> "idle"]

\* No goroutine is using a map.
MapsOff ==
    /\ macc = [t \in Workers |-> MapIdle]
    /\ mapMutex = [m \in Maps |-> 0]

\* A map without keys.
EmptyMap == [n \in {} |-> <<>>]

NoUrls == [urlStr |-> <<>>, ret |-> <<>>, err |-> "none"]

\* No mirror is registered and UrlsFor was not called.
MirrorsOff ==
    /\ mirrors = EmptyMap
    /\ urls = NoUrls

\* NewMemoryDirectory(): no entries and no names.  The entries of the whole
\* tree are kept by path.
EmptyDir == [entries |-> EmptyMap, names |-> <<>>]

NoDres == [op |-> "none", path |-> <<>>, file |-> [kind |-> "none", id |-> 0],
           err |-> "none"]

\* The tree is empty and was not used.
TreeOff ==
    /\ root = EmptyDir
    /\ dres = NoDres

\* exec.Cmd values: nil, and the Cmd of a process; proc is 0 while
\* Cmd.Process is nil.
NilCmd == [set |-> FALSE, proc |-> 0]

NoWres == [req |-> "none", status |-> 0, to |-> ""]

\* New(db): no VM was started.
WebOff ==
    /\ runningCmd = NilCmd
    /\ procs = {}
    /\ started = 0
    /\ wres = NoWres

\* IdentityCondition{}
Identity == [t |-> "identity"]

NoCond == [pc |-> "off", a |-> Identity, b |-> Identity,
           combined |-> Identity, name |-> "", res |-> "none"]

\* No condition was combined.
CondOff == cond = NoCond

\* The subsystems beside the build engine are at rest.
OthersOff ==
    /\ FetchOff
    /\ MapsOff
    /\ MirrorsOff
    /\ TreeOff
    /\ WebOff
    /\ CondOff

\* The build directory is empty and no Build is running.
EngineOff ==
    /\ bin = [h \in Hashes |-> Absent]
    /\ tmp = [h \in Hashes |-> Absent]
    /\ defFile = {}
    /\ downloadedTag = {}
    /\ redistributableTag = {}
    /\ buildCache = {}
    /\ buildStatuses = [d \in AllDefs |-> "none"]
    /\ distributionServer = ""
    /\ RebuildUserDefinitions = FALSE
    /\ worker = [w \in Workers |-> IdleWorker]
    /\ failedFresh = {}

\* Every .def holds what Build wrote and GetDefinitionByHash was not called.
DefsIntact ==
    /\ defContent = [h \in Hashes |-> "good"]
    /\ defDb = {}
    /\ got = NoGot
    /\ health = [s \in Servers |-> Healthy]

\* The variables of the build engine.
evars == <<bin, tmp, defFile, downloadedTag, redistributableTag,
           buildCache, buildStatuses, distributionServer,
           RebuildUserDefinitions, worker, failedFresh>>

BInit ==
    /\ PlannerOff
    /\ DefsIntact
    /\ OthersOff
    /\ bin = [h \in Hashes |-> Absent]
    /\ tmp = [h \in Hashes |-> Absent]
    /\ defFile = {}
    /\ downloadedTag = {}
    /\ redistributableTag = {}
    /\ buildCache = {}
    /\ buildStatuses = [d \in AllDefs |-> "none"]
    /\ distributionServer = ""
    /\ RebuildUserDefinitions \in BOOLEAN
    /\ worker = [w \in Workers |-> IdleWorker]
    /\ failedFresh = {}

(***************************************************************************)
(* PackageDatabase.Build, one action per step between two file-system or   *)
(* cache operations.  Defs holds definitions that HashDefinition accepts.  *)
(***************************************************************************)

\* Mutant: always_rebuild passes by the build cache.
Build_Enter_AlwaysSkipsCache(w, d, always) ==
    LET h == HashDefinition(d)
        wrec == [IdleWorker EXCEPT !.def = d, !.always = always,
                                   !.binAtStart = Exists(bin[h]),
                                   !.retry = h \in failedFresh]
        st == [St EXCEPT !.wk[w] = wrec]
    IN  /\ worker[w].pc = "idle"
        /\ IF h \in buildCache /\ ~always
           THEN Commit(Ret(st, w, "ok", "CacheHit", {}))
           ELSE Commit(To(st, w, "check", {}))
        /\ UNCHANGED <<tags, cfg, buildCache, buildStatuses>>

\* Build, lines 559-586: hash the definition and consult the build cache.
Build_Enter(w, d, always) ==
    LET h == HashDefinition(d)
        wrec == [IdleWorker EXCEPT !.def = d, !.always = always,
                                   !.binAtStart = Exists(bin[h]),
                                   !.retry = h \in failedFresh]
        st == [St EXCEPT !.wk[w] = wrec]
    IN  /\ worker[w].pc = "idle"
        /\ IF h \in buildCache
           THEN Commit(Ret(st, w, "ok", "CacheHit", {}))
           ELSE Commit(To(st, w, "check", {}))
        /\ UNCHANGED <<tags, cfg, buildCache, buildStatuses>>

\* Build, lines 607-617: no rebuild is necessary.
Build_Cached(w, events) ==
    /\ updateBuildStatus(worker[w].def, BuildStatusCached)
    /\ Return(w, "ok", "Cached", events)

\* Build, lines 619-621: a rebuild was requested.
Build_Rebuild(w, events) ==
    /\ Commit(To([St EXCEPT !.wk[w].hasCached = TRUE], w, "writedef", events))
    /\ UNCHANGED buildStatuses

\* Mutant: a downloaded artifact is never rebuilt.
Build_CheckCached_DownloadedNeverRebuilt(w) ==
    LET h == H(w) IN
    /\ worker[w].pc = "check"
    /\ UNCHANGED <<tags, cfg, buildCache>>
    /\ IF worker[w].always
       THEN Goto(w, "writedef", {}) /\ UNCHANGED buildStatuses
       ELSE IF ~Exists(bin[h])
       THEN Goto(w, "writedef", {"stat"}) /\ UNCHANGED buildStatuses
       ELSE IF h \notin downloadedTag
       THEN \E needsBuild \in {"yes", "no", "err"} :
              CASE needsBuild = "err" ->
                     /\ Return(w, "err", "NeedsBuild",
                               {"stat", "NeedsBuild", "NeedsBuild=err"})
                     /\ UNCHANGED buildStatuses
                [] needsBuild = "no" ->
                     Build_Cached(w, {"stat", "NeedsBuild", "NeedsBuild=no"})
                [] needsBuild = "yes" ->
                     Build_Rebuild(w, {"stat", "NeedsBuild", "NeedsBuild=yes"})
       ELSE Build_Cached(w, {"stat"})

\* Build, lines 588-627: is there an artifact, and must it be rebuilt?
Build_CheckCached(w) ==
    LET h == H(w) IN
    /\ worker[w].pc = "check"
    /\ UNCHANGED <<tags, cfg, buildCache>>
    /\ IF worker[w].always
       THEN Goto(w, "writedef", {}) /\ UNCHANGED buildStatuses
       ELSE IF ~Exists(bin[h])
       THEN Goto(w, "writedef", {"stat"}) /\ UNCHANGED buildStatuses
       ELSE IF h \notin downloadedTag
       THEN \E needsBuild \in {"yes", "no", "err"} :
              CASE needsBuild = "err" ->
                     /\ Return(w, "err", "NeedsBuild",
                               {"stat", "NeedsBuild", "NeedsBuild=err"})
                     /\ UNCHANGED buildStatuses
                [] needsBuild = "no" ->
                     Build_Cached(w, {"stat", "NeedsBuild", "NeedsBuild=no"})
                [] needsBuild = "yes" ->
                     Build_Rebuild(w, {"stat", "NeedsBuild", "NeedsBuild=yes"})
       ELSE IF ~RebuildUserDefinitions
       THEN Build_Cached(w, {"stat"})
       ELSE Build_Rebuild(w, {"stat"})

\* Mutant: the definition is marshalled but never written.
Build_WriteDef_NoWrite(w) ==
    /\ worker[w].pc = "writedef"
    /\ UNCHANGED <<tags, cfg, buildCache, buildStatuses>>
    /\ \E r \in {"ok", "marshal"} :
         IF r = "ok"
         THEN Goto(w, IF distributionServer # "" THEN "dlget" ELSE "build",
                   {"WriteDef"})
         ELSE Return(w, "err", "WriteDef", {})

\* Build, lines 629-648: persist the definition.
Build_WriteDef(w) ==
    /\ worker[w].pc = "writedef"
    /\ UNCHANGED <<downloadedTag, redistributableTag, cfg, buildCache,
                   buildStatuses>>
    /\ \E r \in {"ok", "marshal", "write"} :
         IF r = "ok"
         THEN /\ defFile' = defFile \cup {H(w)}
              /\ Goto(w, IF distributionServer # "" THEN "dlget" ELSE "build",
                      {"WriteDef"})
         ELSE /\ UNCHANGED defFile
              /\ Return(w, "err", "WriteDef", {})

\* Mutant: every status other than 200 is taken for "not on the mirror".
Download_Get_AnyStatusIsMiss(w) ==
    /\ worker[w].pc = "dlget"
    /\ UNCHANGED <<tags, cfg, buildCache, buildStatuses>>
    /\ IF ~Redistributable(worker[w].def)
       THEN Goto(w, "build", {})
       ELSE \E resp \in {"transport", "404", "500", "200"} :
              CASE resp \in {"404", "500"} -> Goto(w, "build", {"GET", resp})
                [] resp = "transport" ->
                     Return(w, "err", "GET", {"GET", resp})
                [] resp = "200" ->
                     \/ Commit(To(Create(St, w), w, "dlcopy",
                                  {"GET", resp, "Create"}))
                     \/ Return(w, "err", "Create", {"GET", resp})

\* downloadFromDistributionServer, lines 494-528: ask the mirror.
Download_Get(w) ==
    /\ worker[w].pc = "dlget"
    /\ UNCHANGED <<tags, cfg, buildCache, buildStatuses>>
    /\ IF ~Redistributable(worker[w].def)
       THEN Goto(w, "build", {})
       ELSE \E resp \in {"transport", "404", "500", "200"} :
              CASE resp = "404" -> Goto(w, "build", {"GET", resp})
                [] resp \in {"transport", "500"} ->
                     Return(w, "err", "GET", {"GET", resp})
                [] resp = "200" ->
                     \/ Commit(To(Create(St, w), w, "dlcopy",
                                  {"GET", resp, "Create"}))
                     \/ Return(w, "err", "Create", {"GET", resp})

\* downloadFromDistributionServer, lines 530-537: copy the body into tmp.
Download_Copy(w) ==
    /\ worker[w].pc = "dlcopy"
    /\ UNCHANGED <<tags, cfg, buildCache, buildStatuses>>
    /\ \/ Commit(To(Write(St, w, ArtLen, "mirror"), w, "dlclose", {"Copy"}))
       \/ \E k \in Partial :
            Commit(Ret(Remove(CloseFd(Write(St, w, k, "mirror"), w), H(w)),
                       w, "err", "Copy", {"Copy"}))

\* downloadFromDistributionServer, lines 539-541: close tmp.
Download_Close(w) ==
    /\ worker[w].pc = "dlclose"
    /\ UNCHANGED <<tags, cfg, buildCache, buildStatuses>>
    /\ \/ Commit(To(CloseFd(St, w), w, "dlrename", {}))
       \/ Return(w, "err", "dlClose", {})

\* downloadFromDistributionServer, lines 543-545: rename tmp to bin.
Download_Rename(w) ==
    /\ worker[w].pc = "dlrename"
    /\ UNCHANGED <<tags, cfg, buildCache, buildStatuses>>
    /\ \/ /\ Exists(tmp[H(w)])
          /\ Commit(To(Rename(St, H(w)), w, "dltag", {"Rename"}))
       \/ Return(w, "err", "dlRename", {})

\* Mutant: the .redistributable tag is not written after a download.
Download_Tag_NoRedistTag(w) ==
    LET h == H(w) IN
    /\ worker[w].pc = "dltag"
    /\ UNCHANGED <<defFile, cfg, redistributableTag>>
    /\ \E r \in {"ok", "tagErr"} :
         CASE r = "tagErr" ->
                /\ UNCHANGED <<downloadedTag, buildCache, buildStatuses>>
                /\ Return(w, "err", "dlTag", {})
           [] r = "ok" ->
                /\ downloadedTag' = downloadedTag \cup {h}
                /\ updateBuildStatus(worker[w].def, BuildStatusBuilt)
                /\ buildCache' = buildCache \cup {h}
                /\ Return(w, "ok", "Downloaded", {})

\* downloadFromDistributionServer, lines 547-556, and Build, lines 650-671.
Download_Tag(w) ==
    LET h == H(w) IN
    /\ worker[w].pc = "dltag"
    /\ UNCHANGED <<defFile, cfg>>
    /\ \E r \in {"ok", "tagErr", "redistErr"} :
         CASE r = "tagErr" ->
                /\ UNCHANGED <<downloadedTag, redistributableTag, buildCache,
                               buildStatuses>>
                /\ Return(w, "err", "dlTag", {})
           [] r = "redistErr" ->
                /\ downloadedTag' = downloadedTag \cup {h}
                /\ updateBuildStatus(worker[w].def, BuildStatusBuilt)
                /\ UNCHANGED <<redistributableTag, buildCache>>
                /\ Return(w, "err", "redistTag", {})
           [] r = "ok" ->
                /\ downloadedTag' = downloadedTag \cup {h}
                /\ updateBuildStatus(worker[w].def, BuildStatusBuilt)
                /\ redistributableTag' = redistributableTag \cup {h}
                /\ buildCache' = buildCache \cup {h}
                /\ Return(w, "ok", "Downloaded", {})

\* What def.Build(child) may do.  The builders return a nil result only to
\* tell the engine to use the existing bin, which they know of through
\* child.HasCached(); a builder may create the tmp file itself.
DefBuildOutcomes(hasCached) ==
    {"err", "errCreated", "writer", "writerCreated"}
        \cup (IF hasCached THEN {"nil"} ELSE {})

\* What def.Build(child) of a BuildVm definition in template mode may do:
\* it returns the sentinel ErrTemplateBuilt with the path, or fails before.
TemplateBuildOutcomes == {"template", "err"}

\* Mutant: a nil result is written to tmp like any other result.
Build_DefBuild_NilIsWritten(w) ==
    LET created == Create([St EXCEPT !.wk[w].created = TRUE], w) IN
    /\ worker[w].pc = "build"
    /\ UNCHANGED <<tags, cfg, buildCache>>
    /\ \E out \in IF worker[w].def = TemplateDef THEN TemplateBuildOutcomes
                  ELSE DefBuildOutcomes(worker[w].hasCached) :
         CASE out = "err" ->
                /\ Return(w, "err", "def.Build", {"def.Build"})
                /\ UNCHANGED buildStatuses
           [] out = "template" ->
                /\ Return(w, "err", "TemplateBuilt", {"def.Build"})
                /\ UNCHANGED buildStatuses
           [] out = "errCreated" ->
                /\ \E k \in Partial :
                     Commit(Ret(Write(created, w, k, "local"),
                                w, "err", "def.Build", {"def.Build"}))
                /\ UNCHANGED buildStatuses
           [] out = "nil" ->
                /\ Goto(w, "create", {"def.Build", "def.Build=nil"})
                /\ UNCHANGED buildStatuses
           [] out = "writer" ->
                /\ Goto(w, "create", {"def.Build"})
                /\ UNCHANGED buildStatuses
           [] out = "writerCreated" ->
                /\ \E k \in 0..ArtLen :
                     Commit(To(Write(created, w, k, "local"),
                               w, "writenil", {"def.Build"}))
                /\ UNCHANGED buildStatuses

\* Build, lines 674-690: run the builder.
Build_DefBuild(w) ==
    LET created == Create([St EXCEPT !.wk[w].created = TRUE], w) IN
    /\ worker[w].pc = "build"
    /\ UNCHANGED <<tags, cfg, buildCache>>
    /\ \E out \in IF worker[w].def = TemplateDef THEN TemplateBuildOutcomes
                  ELSE DefBuildOutcomes(worker[w].hasCached) :
         CASE out = "err" ->
                /\ Return(w, "err", "def.Build", {"def.Build"})
                /\ UNCHANGED buildStatuses
           [] out = "template" ->
                /\ Return(w, "err", "TemplateBuilt", {"def.Build"})
                /\ UNCHANGED buildStatuses
           [] out = "errCreated" ->
                /\ \E k \in Partial :
                     Commit(Ret(Write(created, w, k, "local"),
                                w, "err", "def.Build", {"def.Build"}))
                /\ UNCHANGED buildStatuses
           [] out = "nil" ->
                /\ updateBuildStatus(worker[w].def, BuildStatusCached)
                /\ Return(w, "ok", "Nil", {"def.Build", "def.Build=nil"})
           [] out = "writer" ->
                /\ Goto(w, "create", {"def.Build"})
                /\ UNCHANGED buildStatuses
           [] out = "writerCreated" ->
                /\ \E k \in 0..ArtLen :
                     Commit(To(Write(created, w, k, "local"),
                               w, "writenil", {"def.Build"}))
                /\ UNCHANGED buildStatuses

\* Build, lines 692-698: the engine creates tmp.
Build_CreateTmp(w) ==
    /\ worker[w].pc = "create"
    /\ ~worker[w].created
    /\ UNCHANGED <<tags, cfg, buildCache, buildStatuses>>
    /\ \/ Commit(To(Create(St, w), w, "write", {"Create"}))
       \/ Return(w, "err", "Create", {})

\* Mutant: a failing WriteResult is not treated as an error.
Build_WriteResult_IgnoreError(w) ==
    /\ worker[w].pc = "write"
    /\ UNCHANGED <<tags, cfg, buildCache, buildStatuses>>
    /\ \E k \in 0..ArtLen :
         Commit(To(Write(St, w, k, "local"), w, "close", {"WriteResult"}))

\* Build, lines 700-705: result.WriteResult(outFile).
Build_WriteResult(w) ==
    /\ worker[w].pc = "write"
    /\ UNCHANGED <<tags, cfg, buildCache, buildStatuses>>
    /\ \/ Commit(To(Write(St, w, ArtLen, "local"), w, "close", {"WriteResult"}))
       \/ \E k \in Partial :
            Commit(Ret(Remove(CloseFd(Write(St, w, k, "local"), w), H(w)),
                       w, "err", "WriteResult",
                       {"WriteResult", "WriteResult=err"}))

\* Build, lines 707-710: outFile.Close().
Build_Close(w) ==
    /\ worker[w].pc = "close"
    /\ UNCHANGED <<tags, cfg, buildCache, buildStatuses>>
    /\ \/ Commit(To(CloseFd(St, w), w, "rename", {}))
       \/ Commit(Ret(Remove(CloseFd(St, w), H(w)), w, "err", "Close", {}))

\* Mutant: the engine opens tmp although the builder created it.
Build_WriteResultNil_OpensTmp(w) ==
    /\ worker[w].pc = "writenil"
    /\ worker[w].created
    /\ UNCHANGED <<tags, cfg, buildCache, buildStatuses>>
    /\ \/ Commit(To(CloseFd(Write(Create(St, w), w, ArtLen, "local"), w),
                    w, "rename", {"Create", "WriteResult"}))
       \/ Commit(Ret(Remove(CloseFd(St, w), H(w)),
                     w, "err", "WriteResult",
                     {"WriteResult", "WriteResult=err"}))

\* Build, lines 711-717: the builder created tmp; result.WriteResult(nil).
Build_WriteResultNil(w) ==
    /\ worker[w].pc = "writenil"
    /\ worker[w].created
    /\ UNCHANGED <<tags, cfg, buildCache, buildStatuses>>
    /\ \/ Commit(To(CloseFd(Write(St, w, ArtLen, "local"), w),
                    w, "rename", {"WriteResult"}))
       \/ Commit(Ret(Remove(CloseFd(St, w), H(w)),
                     w, "err", "WriteResult",
                     {"WriteResult", "WriteResult=err"}))

\* Mutant: the error branch is taken although the rename took effect.
Build_Rename_ErrAfterRename(w) ==
    /\ worker[w].pc = "rename"
    /\ UNCHANGED <<tags, cfg, buildCache, buildStatuses>>
    /\ \/ /\ Exists(tmp[H(w)])
          /\ Commit(To(Rename(St, H(w)), w, "finish", {"Rename"}))
       \/ /\ Exists(tmp[H(w)])
          /\ Commit(Ret(Rename(St, H(w)), w, "err", "Rename", {}))

\* Build, lines 719-723: rename tmp to bin.
Build_Rename(w) ==
    /\ worker[w].pc = "rename"
    /\ UNCHANGED <<tags, cfg, buildCache, buildStatuses>>
    /\ \/ /\ Exists(tmp[H(w)])
          /\ Commit(To(Rename(St, H(w)), w, "finish", {"Rename"}))
       \/ Commit(Ret(Remove(St, H(w)), w, "err", "Rename", {}))

\* Build, lines 725-748: record the status, tag, cache and return.
Build_Finish(w) ==
    LET h == H(w) IN
    /\ worker[w].pc = "finish"
    /\ UNCHANGED <<defFile, downloadedTag, cfg>>
    /\ updateBuildStatus(worker[w].def, BuildStatusBuilt)
    /\ IF Redistributable(worker[w].def)
       THEN \/ /\ redistributableTag' = redistributableTag \cup {h}
               /\ buildCache' = buildCache \cup {h}
               /\ Return(w, "ok", "Built", {})
            \/ /\ UNCHANGED <<redistributableTag, buildCache>>
               /\ Return(w, "err", "redistTag", {})
       ELSE /\ UNCHANGED redistributableTag
            /\ buildCache' = buildCache \cup {h}
            /\ Return(w, "ok", "Built", {})

\* SetDistributionServer, lines 1007-1031: GET server/health.
SetDistributionServer(server) ==
    /\ UNCHANGED <<bin, tmp, tags, buildCache, buildStatuses,
                   RebuildUserDefinitions, worker, failedFresh, pvars, gvars, ovars>>
    /\ IF health[server].err = "none" /\ health[server].body = "OK"
       THEN distributionServer' = server
       ELSE UNCHANGED distributionServer

\* The steps of a Build call that does not involve the mirror.
LocalStep(w) ==
    \/ Build_CheckCached(w)
    \/ Build_WriteDef(w)
    \/ Build_DefBuild(w)
    \/ Build_CreateTmp(w)
    \/ Build_WriteResult(w)
    \/ Build_Close(w)
    \/ Build_WriteResultNil(w)
    \/ Build_Rename(w)
    \/ Build_Finish(w)

\* The steps of downloadFromDistributionServer.
DownloadStep(w) ==
    \/ Download_Get(w)
    \/ Download_Copy(w)
    \/ Download_Close(w)
    \/ Download_Rename(w)
    \/ Download_Tag(w)

AllIdle == \A w \in Workers : worker[w].pc = "idle"

\* Build calls made one at a time, all by the first worker.
BuildOneAtATime(d, always) == Build_Enter(1, d, always)

ConfigureServer == AllIdle /\ SetDistributionServer("srv")

\* New, lines 1252-1265: a new process opens the build directory; what the
\* old one held in memory is gone, the files stay.
New ==
    /\ AllIdle
    /\ buildCache # {} \/ distributionServer # ""
    /\ buildCache' = {}
    /\ buildStatuses' = [d \in AllDefs |-> "none"]
    /\ distributionServer' = ""
    /\ worker' = [w \in Workers |-> IdleWorker]
    /\ UNCHANGED <<bin, tmp, tags, RebuildUserDefinitions, failedFresh, pvars,
                   gvars, ovars>>

Next ==
    \/ \E d \in Defs, always \in BOOLEAN : BuildOneAtATime(d, always)
    \/ LocalStep(1)
    \/ DownloadStep(1)
    \/ ConfigureServer
    \/ New

Spec == BInit /\ [][Next]_bvars

(***************************************************************************)
(* Concurrent workers: every worker calls Build once, no distribution      *)
(* server is configured, and the build directory is empty or holds the     *)
(* artifact of h1 that an earlier process built.                           *)
(***************************************************************************)
CInit ==
    /\ PlannerOff
    /\ OthersOff
    /\ DefsIntact
    /\ \E built \in BOOLEAN :
         /\ bin = [h \in Hashes |->
                     IF built /\ h = "h1" THEN Bytes(ArtLen, "local") ELSE Absent]
         /\ defFile = IF built THEN {"h1"} ELSE {}
    /\ tmp = [h \in Hashes |-> Absent]
    /\ downloadedTag = {}
    /\ redistributableTag = {}
    /\ buildCache = {}
    /\ buildStatuses = [d \in AllDefs |-> "none"]
    /\ distributionServer = ""
    /\ RebuildUserDefinitions \in BOOLEAN
    /\ worker = [w \in Workers |-> IdleWorker]
    /\ failedFresh = {}

BuildConcurrently(w, d, always) ==
    /\ worker[w].ret.kind = "none"
    /\ Build_Enter(w, d, always)

NextConc ==
    \/ \E w \in Workers, d \in Defs, always \in BOOLEAN :
         BuildConcurrently(w, d, always)
    \/ \E w \in Workers : LocalStep(w)

SpecConc == CInit /\ [][NextConc]_bvars

(***************************************************************************)
(* Config.MakeTemplate: the BuildVm definition is built in template mode,  *)
(* in a process that may have built it as a virtual machine before.        *)
(***************************************************************************)
\* MakeTemplate, lines 738-745: what it returns for what Build returned.
MakeTemplateReturns(ret) ==
    IF ret.kind = "err" /\ ret.at = "TemplateBuilt" THEN "path"
    ELSE IF ret.kind = "err" THEN "err"
    ELSE "failed to write template output"

\* MakeTemplate, lines 725-738: db.Build with AlwaysRebuild.
MakeTemplate(w) == Build_Enter(w, TemplateDef, TRUE)

\* Config.Run with an output, lines 942-945: the definition is built.
RunOutput(w) == Build_Enter(w, "d3", FALSE)

TNext ==
    \/ MakeTemplate(1)
    \/ RunOutput(1)
    \/ LocalStep(1)
    \/ New

SpecTemplate == CInit /\ [][TNext]_bvars

(***************************************************************************)
(* SetDistributionServer with servers in any condition.                    *)
(***************************************************************************)
\* A server starts to answer GET /health differently.
HealthChanges(server, answer) ==
    /\ health[server] # answer
    /\ health' = [health EXCEPT ![server] = answer]
    /\ UNCHANGED <<evars, pvars, defContent, defDb, got, ovars>>

HInit ==
    /\ PlannerOff
    /\ OthersOff
    /\ bin = [h \in Hashes |-> Absent]
    /\ tmp = [h \in Hashes |-> Absent]
    /\ defFile = {}
    /\ defContent = [h \in Hashes |-> "good"]
    /\ defDb = {}
    /\ got = NoGot
    /\ health \in [Servers -> HealthAnswers]
    /\ downloadedTag = {}
    /\ redistributableTag = {}
    /\ buildCache = {}
    /\ buildStatuses = [d \in AllDefs |-> "none"]
    /\ distributionServer = ""
    /\ RebuildUserDefinitions = FALSE
    /\ worker = [w \in Workers |-> IdleWorker]
    /\ failedFresh = {}

HNext ==
    \/ \E server \in Servers : SetDistributionServer(server)
    \/ \E server \in Servers, answer \in HealthAnswers :
         HealthChanges(server, answer)

SpecServer == HInit /\ [][HNext]_bvars

(***************************************************************************)
(* GetDefinitionByHash on a build directory in any condition: a .def may   *)
(* hold what Build wrote, bytes that do not decode, a value that is not a  *)
(* build definition, or a definition with another hash.                    *)
(***************************************************************************)
DefContents == {"good", "wrongHash", "undecodable", "notBuildDef"}

\* The hash of the definition that the bytes of <h>.def decode to.
Rehash(h, content) ==
    IF content = "good" THEN h ELSE CHOOSE k \in Hashes : k # h

\* GetDefinitionByHash, lines 862-893.
GetDefinitionByHash(h) ==
    /\ got' = IF h \in defDb
              THEN [hash |-> h, kind |-> "ok", rehash |-> h]
              ELSE IF h \notin defFile
              THEN [hash |-> h, kind |-> "err", rehash |-> "none"]
              ELSE IF defContent[h] \in {"undecodable", "notBuildDef"}
              THEN [hash |-> h, kind |-> "err", rehash |-> "none"]
              ELSE [hash |-> h, kind |-> "ok",
                    rehash |-> Rehash(h, defContent[h])]
    /\ UNCHANGED <<evars, pvars, defContent, defDb, health, ovars>>

GInit ==
    /\ PlannerOff
    /\ OthersOff
    /\ bin = [h \in Hashes |-> Absent]
    /\ tmp = [h \in Hashes |-> Absent]
    /\ defFile \in SUBSET Hashes
    /\ defContent \in [Hashes -> DefContents]
    /\ defDb \in SUBSET Hashes
    /\ got = NoGot
    /\ health = [s \in Servers |-> Healthy]
    /\ downloadedTag = {}
    /\ redistributableTag = {}
    /\ buildCache = {}
    /\ buildStatuses = [d \in AllDefs |-> "none"]
    /\ distributionServer = ""
    /\ RebuildUserDefinitions = FALSE
    /\ worker = [w \in Workers |-> IdleWorker]
    /\ failedFresh = {}

GNext == \E h \in Hashes : GetDefinitionByHash(h)

SpecDefs == GInit /\ [][GNext]_bvars

(***************************************************************************)
(* The package model (db/db.go).  A package is referred to by its index in *)
(* Pkgs, as the code refers to it by pointer.                              *)
(***************************************************************************)
MaxQueries == 2
MaxAdds == 3
MaxDepth == 6

Names == {"a", "b", "c", "d", "x", "A", "B", "foo", "u", "o1", "o3", "ssl",
          "n", "s", "t", "p", "virt", "e", "w", "loop", "j", "k"}

\* A package name or alias: name, version, architecture.
Nm(n, v, arch) == [name |-> n, version |-> v, arch |-> arch]

\* A query, dependency option or conflict: name and version predicate, a
\* list of conjuncts [op, v]; the empty list accepts every version.
Qy(n, pred) == [name |-> n, pred |-> pred, arch |-> "", recommended |-> FALSE]

Want(n) == Qy(n, <<>>)

Rec(q) == [q EXCEPT !.recommended = TRUE]

Pk(nm, depends, aliases, conflicts) ==
    [name |-> nm, depends |-> depends, aliases |-> aliases,
     conflicts |-> conflicts]

Ge(v) == [op |-> ">=", v |-> v]
Lt(v) == [op |-> "<", v |-> v]
Eq(v) == [op |-> "=", v |-> v]

Pkgs == <<
    \* 1-4: a diamond
    Pk(Nm("a", 1, ""), << <<Want("b")>>, <<Want("c")>> >>, <<>>, <<>>),
    Pk(Nm("b", 1, ""), << <<Want("d")>> >>, <<>>, <<>>),
    Pk(Nm("c", 1, ""), << <<Want("d")>> >>, <<>>, <<>>),
    Pk(Nm("d", 1, ""), <<>>, <<>>, <<>>),
    \* 5-7: dependency cycles
    Pk(Nm("a", 1, ""), << <<Want("b")>> >>, <<>>, <<>>),
    Pk(Nm("b", 1, ""), << <<Want("a")>> >>, <<>>, <<>>),
    Pk(Nm("c", 1, ""), << <<Want("c")>> >>, <<>>, <<>>),
    \* 8-12: versions and architectures
    Pk(Nm("foo", 10, ""), <<>>, <<>>, <<>>),
    Pk(Nm("foo", 12, "arm"), <<>>, <<>>, <<>>),
    Pk(Nm("foo", 12, "x86"), <<>>, <<>>, <<>>),
    Pk(Nm("foo", 20, ""), <<>>, <<>>, <<>>),
    Pk(Nm("u", 1, ""), << <<Qy("foo", <<Ge(11), Lt(20)>>)>> >>, <<>>, <<>>),
    \* 13-16: recommended options and alternatives
    Pk(Nm("a", 1, ""), << <<Rec(Want("b")), Want("c")>> >>, <<>>, <<>>),
    Pk(Nm("b", 1, ""), <<>>, <<>>, <<>>),
    Pk(Nm("c", 1, ""), <<>>, <<>>, <<>>),
    Pk(Nm("d", 1, ""), << <<Want("x"), Want("c")>> >>, <<>>, <<>>),
    \* 17-21: aliases and conflicts
    Pk(Nm("o1", 11, ""), <<>>, <<Nm("ssl", 11, "")>>, << <<Want("ssl")>> >>),
    Pk(Nm("o3", 30, ""), <<>>, <<Nm("ssl", 30, "")>>, << <<Want("ssl")>> >>),
    Pk(Nm("n", 1, ""), << <<Want("o3")>> >>, <<>>, <<>>),
    Pk(Nm("s", 1, ""), <<>>, <<>>, << <<Want("s")>> >>),
    Pk(Nm("t", 1, ""), << <<Want("ssl")>> >>, <<>>, << <<Qy("ssl", <<Ge(20)>>)>> >>),
    \* 22-23: a repository whose names are case-insensitive
    Pk(Nm("a", 1, ""), << <<Want("A")>> >>, <<>>, <<>>),
    Pk(Nm("b", 1, ""), <<>>, <<>>, <<>>),
    \* 24: a package that only a search provider returns
    Pk(Nm("p", 1, ""), <<>>, <<>>, <<>>),
    \* 25-26: a missing dependency, a dependency whose search fails
    Pk(Nm("a", 1, ""), << <<Want("x")>> >>, <<>>, <<>>),
    Pk(Nm("b", 1, ""), << <<Want("e")>> >>, <<>>, <<>>),
    \* 27: depends on the package with the missing dependency
    Pk(Nm("c", 1, ""), << <<Want("a")>> >>, <<>>, <<>>),
    \* 28: returned by a search provider for a name it depends on
    Pk(Nm("w", 1, ""), << <<Want("loop")>> >>, <<>>, <<>>),
    \* 29-30: a conflict that only one of the two packages declares
    Pk(Nm("j", 1, ""), <<>>, <<>>, << <<Want("k")>> >>),
    Pk(Nm("k", 1, ""), <<>>, <<>>, <<>>)
>>

NoProvider == [n \in Names |-> <<>>]

\* The databases: Fetchers (each with its Packages, in order), the
\* SearchProviders, and the queries a user makes of it.
Dbs == <<
    [Fetchers |-> << [ci |-> FALSE, Packages |-> <<1, 2>>],
                     [ci |-> FALSE, Packages |-> <<3, 4>>] >>,
     SearchProviders |-> <<>>,
     queries |-> <<Want("a"), Want("b"), Want("d"), Want("x")>>],
    [Fetchers |-> << [ci |-> FALSE, Packages |-> <<5, 6, 7>>] >>,
     SearchProviders |-> <<>>,
     queries |-> <<Want("a"), Want("b"), Want("c")>>],
    [Fetchers |-> << [ci |-> FALSE, Packages |-> <<8, 9, 10, 11, 12>>] >>,
     SearchProviders |-> <<>>,
     queries |-> <<Want("foo"), Qy("foo", <<Ge(11), Lt(20)>>),
                   Qy("foo", <<Eq(20)>>), Want("u")>>],
    [Fetchers |-> << [ci |-> FALSE, Packages |-> <<13, 14, 15, 16>>] >>,
     SearchProviders |-> <<>>,
     queries |-> <<Want("a"), Want("b"), Want("c"), Want("d")>>],
    [Fetchers |-> << [ci |-> FALSE, Packages |-> <<17, 18, 19, 20, 21>>] >>,
     SearchProviders |-> <<>>,
     queries |-> <<Want("o1"), Want("o3"), Want("n"), Want("s"), Want("t")>>],
    [Fetchers |-> << [ci |-> TRUE, Packages |-> <<22, 23>>] >>,
     SearchProviders |-> <<>>,
     queries |-> <<Want("a"), Want("b"), Want("B")>>],
    [Fetchers |-> << [ci |-> FALSE, Packages |-> <<24>>] >>,
     SearchProviders |-> << [fails |-> {},
                             answers |-> [NoProvider EXCEPT !["virt"] = <<24>>,
                                                            !["loop"] = <<28>>]] >>,
     queries |-> <<Want("p"), Want("virt"), Want("loop")>>],
    [Fetchers |-> << [ci |-> FALSE, Packages |-> <<25, 26, 27>>] >>,
     SearchProviders |-> << [fails |-> {"e"}, answers |-> NoProvider] >>,
     queries |-> <<Want("a"), Want("b"), Want("c"), Want("x")>>],
    [Fetchers |-> << [ci |-> FALSE, Packages |-> <<29, 30>>] >>,
     SearchProviders |-> <<>>,
     queries |-> <<Want("j"), Want("k")>>]
>>

NumDbs == Len(Dbs)

Max(i, j) == IF i >= j THEN i ELSE j

\* PackageName.ShortName: the names here carry no namespace.
ShortName(name) == name.name

\* Lower-casing of a name.
Fold(n) == CASE n = "A" -> "a" [] n = "B" -> "b" [] OTHER -> n

\* One conjunct of a version predicate.
Satisfies(ver, c) ==
    CASE c.op = ">=" -> ver >= c.v
      [] c.op = "<"  -> ver < c.v
      [] c.op = "="  -> ver = c.v

\* versionMatches(ver, predicate)
versionMatches(ver, pred) ==
    \A i \in 1..Len(pred) : Satisfies(ver, pred[i])

\* Package.Matches(query) in a fetcher whose names are or are not
\* case-sensitive.
Matches(pkg, query, ci) ==
    /\ IF ci THEN Fold(pkg.name.name) = Fold(query.name)
             ELSE pkg.name.name = query.name
    /\ versionMatches(pkg.name.version, query.pred)
    /\ (query.arch = "" \/ pkg.name.arch = query.arch)

\* Is package id a package of a case-insensitive fetcher of db?
CaseInsensitive(db, id) ==
    \E i \in 1..Len(db.Fetchers) :
        /\ db.Fetchers[i].ci
        /\ \E j \in 1..Len(db.Fetchers[i].Packages) :
             db.Fetchers[i].Packages[j] = id

RECURSIVE SearchFetchers(_, _, _)
\* Search, lines 1034-1050 without the MaxResults cut: the matching packages
\* of fetchers i.. in order.
SearchFetchers(db, query, i) ==
    IF i > Len(db.Fetchers) THEN <<>>
    ELSE SelectSeq(db.Fetchers[i].Packages,
                   LAMBDA id : Matches(Pkgs[id], query, db.Fetchers[i].ci))
             \o SearchFetchers(db, query, i + 1)

\* searchWithProviders, lines 1012-1027; every provider and every query
\* here is of the same distribution.
searchWithProviders(db, query) ==
    IF db.SearchProviders = <<>>
    THEN [results |-> <<>>, err |-> FALSE]
    ELSE IF query.name \in db.SearchProviders[1].fails
    THEN [results |-> <<>>, err |-> TRUE]
    ELSE [results |-> db.SearchProviders[1].answers[query.name], err |-> FALSE]

\* Search, lines 1029-1057.
Search(db, query, opts) ==
    LET all == SearchFetchers(db, query, 1)
        ret == IF opts.MaxResults # 0 /\ Len(all) >= opts.MaxResults
               THEN SubSeq(all, 1, opts.MaxResults) ELSE all
    IN  IF Len(ret) = 0
        THEN searchWithProviders(db, query)
        ELSE [results |-> ret, err |-> FALSE]

(***************************************************************************)
(* InstallationPlan                                                        *)
(***************************************************************************)
QueryOptions ==
    [ExcludeRecommends : BOOLEAN, MaxResults : {0, 1},
     PreferArchitecture : {"", "x86"}]

\* MakeIncrementalPlanner, lines 1347-1354.  installed holds -1 and
\* installedPackages 0 for a short name that is not in the map.
MakeIncrementalPlanner(opts) ==
    [installed |-> [n \in Names |-> -1],
     installedPackages |-> [n \in Names |-> 0],
     Packages |-> <<>>,
     dependencyGraph |-> <<>>,
     queryOptions |-> opts,
     made |-> "incremental"]

\* checkName, lines 1103-1107
checkName(pl, name) ==
    [ver |-> pl.installed[ShortName(name)],
     ok |-> pl.installedPackages[ShortName(name)] # 0]

\* getInstalled, lines 1109-1113; 0 when nothing is installed.
getInstalled(pl, name) == pl.installedPackages[ShortName(name)]

\* addName, lines 1115-1124
addName(pl, pkg, name) ==
    [pl EXCEPT !.installedPackages[ShortName(name)] = pkg,
               !.installed[ShortName(name)] = name.version]

RECURSIVE addNames(_, _, _, _)
\* addPackage, lines 1214-1220: the aliases from index i on.
addNames(pl, pkg, aliases, i) ==
    IF i > Len(aliases) THEN pl
    ELSE addNames(addName(pl, pkg, aliases[i]), pkg, aliases, i + 1)

\* pickPackage, lines 1137-1165
pickPackage(db, pl, query, results) ==
    LET archQuery == [query EXCEPT !.arch = pl.queryOptions.PreferArchitecture]
        filtered == SelectSeq(results,
                        LAMBDA id : Matches(Pkgs[id], archQuery,
                                            CaseInsensitive(db, id)))
    IN  IF Len(results) = 1 THEN results[1]
        ELSE IF pl.queryOptions.PreferArchitecture # "" /\ Len(filtered) > 0
        THEN filtered[1]
        ELSE results[1]

\* Mutant: the conflict predicate is tried on the version of the package
\* being added instead of on the installed version.
hasConflict_OwnVersion(pl, pkg) ==
    \E i \in 1..Len(Pkgs[pkg].conflicts) :
        \E j \in 1..Len(Pkgs[pkg].conflicts[i]) :
            LET option == Pkgs[pkg].conflicts[i][j]
                c == checkName(pl, option)
            IN  c.ok /\ versionMatches(Pkgs[pkg].name.version, option.pred)

\* addPackage, lines 1203-1212: does an installed name match a conflict?
hasConflict(pl, pkg) ==
    \E i \in 1..Len(Pkgs[pkg].conflicts) :
        \E j \in 1..Len(Pkgs[pkg].conflicts[i]) :
            LET option == Pkgs[pkg].conflicts[i][j]
                c == checkName(pl, option)
            IN  c.ok /\ versionMatches(c.ver, option.pred)

\* Mutant: the package is put in front of the list.
finishPackage_Prepend(pl, pkg) == [pl EXCEPT !.Packages = <<pkg>> \o @]

\* addPackage, lines 1245-1246: finally add the package.
finishPackage(pl, pkg) == [pl EXCEPT !.Packages = Append(@, pkg)]

NoErr == [kind |-> "none", wrapped |-> FALSE]

Err(kind) == [kind |-> kind, wrapped |-> FALSE]

\* fmt.Errorf("failed to add package for %s: %s", ...)
Wrap(err) == [err EXCEPT !.wrapped = TRUE]

\* err.(ErrPackageNotFound)
IsNotFound(err) == err.kind = "NotFound" /\ ~err.wrapped

Res(pl, err, added, depth) ==
    [plan |-> pl, err |-> err, added |-> added, depth |-> depth]

RECURSIVE addPackage(_, _, _, _, _)
RECURSIVE addDepends(_, _, _, _, _, _, _)

\* addPackage, lines 1245-1248: the dependencies were added with result r;
\* append the package and return what was added.
addFinish(r, pkg) ==
    IF r.err # NoErr THEN Res(r.plan, r.err, <<>>, r.depth + 1)
    ELSE Res(finishPackage(r.plan, pkg), NoErr, r.added, r.depth + 1)

\* addPackage, lines 1203-1243: the own name of pkg is recorded in pl; check
\* the conflicts, record the aliases, add the dependencies.
addChecked(db, pl, pkg, fuel) ==
    IF hasConflict(pl, pkg) THEN Res(pl, Err("Conflict"), <<>>, 1)
    ELSE addFinish(addDepends(db, addNames(pl, pkg, Pkgs[pkg].aliases, 1),
                              pkg, 1, 1, <<pkg>>, fuel - 1),
                   pkg)

\* addPackage, lines 1194-1201: pkg was picked; record the edge from the
\* parent and the own name.
addPicked(db, pl, parent, pkg, fuel) ==
    addChecked(db,
               addName([pl EXCEPT !.dependencyGraph = Append(@, <<parent, pkg>>)],
                       pkg, Pkgs[pkg].name),
               pkg, fuel)

\* addPackage, lines 1180-1192: the search returned sr.
addFound(db, pl, parent, query, sr, fuel) ==
    IF sr.err THEN Res(pl, Wrap(Err("Search")), <<>>, 1)
    ELSE IF Len(sr.results) = 0 THEN Res(pl, Err("NotFound"), <<>>, 1)
    ELSE addPicked(db, pl, parent, pickPackage(db, pl, query, sr.results), fuel)

\* addPackage, lines 1167-1249.  fuel bounds the depth of the recursion; a
\* call that runs out of it stands for a recursion that does not end.
addPackage(db, pl, parent, query, fuel) ==
    IF fuel = 0 THEN Res(pl, Wrap(Err("Overflow")), <<>>, 1)
    ELSE IF getInstalled(pl, query) # 0
    THEN Res([pl EXCEPT !.dependencyGraph =
                  Append(@, <<parent, getInstalled(pl, query)>>)],
             NoErr, <<>>, 1)
    ELSE addFound(db, pl, parent, query, Search(db, query, pl.queryOptions), fuel)

\* The depth of a result is at least depth.
deeper(rest, depth) == [rest EXCEPT !.depth = Max(@, depth)]

\* Mutant: a recommended option is left out whatever the query options say.
skipRecommended_Always(pl, option) == option.recommended

\* addPackage, line 1226: is the option left out?
skipRecommended(pl, option) ==
    option.recommended /\ pl.queryOptions.ExcludeRecommends

\* Mutant: every error of an option is taken for "not found".
addOption_SkipAnyError(db, pkg, gi, oi, added, r, fuel) ==
    IF r.err # NoErr
    THEN deeper(addDepends(db, r.plan, pkg, gi, oi + 1, added, fuel), r.depth)
    ELSE deeper(addDepends(db, r.plan, pkg, gi + 1, 1, added \o r.added, fuel),
                r.depth)

\* addPackage, lines 1230-1239: option oi of group gi was added with result
\* r; go on with the next option, fail, or go on with the next group.
addOption(db, pkg, gi, oi, added, r, fuel) ==
    IF IsNotFound(r.err)
    THEN deeper(addDepends(db, r.plan, pkg, gi, oi + 1, added, fuel), r.depth)
    ELSE IF r.err # NoErr
    THEN Res(r.plan, Wrap(r.err), <<>>, r.depth)
    ELSE deeper(addDepends(db, r.plan, pkg, gi + 1, 1, added \o r.added, fuel),
                r.depth)

\* addPackage, lines 1222-1243: the dependency groups from group gi, option
\* oi on; added is what has been added so far.
addDepends(db, pl, pkg, gi, oi, added, fuel) ==
    IF gi > Len(Pkgs[pkg].depends) THEN Res(pl, NoErr, added, 0)
    ELSE IF oi > Len(Pkgs[pkg].depends[gi]) THEN Res(pl, Err("Unresolved"), <<>>, 0)
    ELSE IF skipRecommended(pl, Pkgs[pkg].depends[gi][oi])
    THEN addDepends(db, pl, pkg, gi, oi + 1, added, fuel)
    ELSE addOption(db, pkg, gi, oi, added,
                   addPackage(db, pl, pkg, Pkgs[pkg].depends[gi][oi], fuel),
                   fuel)

RECURSIVE addAll(_, _, _, _, _)
\* The loop of MakeInstallationPlan (lines 1338-1342) and of plan.add
\* (lines 1287-1296): add the names from index i on, stop at an error.
addAll(db, pl, names, i, depth) ==
    IF i > Len(names) THEN Res(pl, NoErr, <<>>, depth)
    ELSE LET r == addPackage(db, pl, 0, names[i], MaxDepth) IN
         IF r.err # NoErr THEN Res(r.plan, r.err, <<>>, Max(depth, r.depth))
         ELSE addAll(db, r.plan, names, i + 1, Max(depth, r.depth))

\* The query lists a caller passes.
QueryLists(db) ==
    UNION {[1..k -> {db.queries[i] : i \in 1..Len(db.queries)}] :
             k \in 1..MaxQueries}

\* MakeInstallationPlan, lines 1335-1345: the plan, or the error and no plan.
MakeInstallationPlan(packages, opts) ==
    LET r == addAll(Dbs[pdb], MakeIncrementalPlanner(opts), packages, 1, 0) IN
    /\ plan = NoPlan
    /\ plan' = IF r.err # NoErr THEN NoPlan ELSE [r.plan EXCEPT !.made = "make"]
    /\ pres' = [op |-> "make", query |-> NoQuery, err |-> r.err,
                depth |-> r.depth, adds |-> 0]
    /\ UNCHANGED <<pdb, evars, gvars, ovars>>

\* MakeIncrementalPlanner called by a script.
NewIncrementalPlanner(opts) ==
    /\ plan = NoPlan
    /\ plan' = MakeIncrementalPlanner(opts)
    /\ pres' = [op |-> "new", query |-> NoQuery, err |-> NoErr, depth |-> 0,
                adds |-> 0]
    /\ UNCHANGED <<pdb, evars, gvars, ovars>>

\* plan.add(name), lines 1267-1299, on an incremental plan.  A call with
\* several names leaves the plan that successive calls up to the first
\* error leave.
PlanAdd(name) ==
    LET r == addAll(Dbs[pdb], plan, <<name>>, 1, 0) IN
    /\ plan.made = "incremental"
    /\ pres.err.kind # "Overflow"
    /\ pres.adds < MaxAdds
    /\ plan' = r.plan
    /\ pres' = [op |-> "add", query |-> name, err |-> r.err,
                depth |-> r.depth, adds |-> pres.adds + 1]
    /\ UNCHANGED <<pdb, evars, gvars, ovars>>

PInit ==
    /\ DefsIntact
    /\ OthersOff
    /\ pdb \in 1..NumDbs
    /\ plan = NoPlan
    /\ pres = NoRes
    /\ bin = [h \in Hashes |-> Absent]
    /\ tmp = [h \in Hashes |-> Absent]
    /\ defFile = {}
    /\ downloadedTag = {}
    /\ redistributableTag = {}
    /\ buildCache = {}
    /\ buildStatuses = [d \in AllDefs |-> "none"]
    /\ distributionServer = ""
    /\ RebuildUserDefinitions = FALSE
    /\ worker = [w \in Workers |-> IdleWorker]
    /\ failedFresh = {}

PNext ==
    \/ \E opts \in QueryOptions, packages \in QueryLists(Dbs[pdb]) :
         MakeInstallationPlan(packages, opts)
    \/ \E opts \in QueryOptions : NewIncrementalPlanner(opts)
    \/ \E i \in 1..Len(Dbs[pdb].queries) : PlanAdd(Dbs[pdb].queries[i])

SpecPlan == PInit /\ [][PNext]_bvars

(***************************************************************************)
(* Loading the repositories (db/db.go)                                     *)
(***************************************************************************)
\* What the other variables do during a step of the repository loading.
FetchFrame == UNCHANGED <<evars, pvars, gvars, xvars, mvars, dvars, wvars, cvars>>

\* fetcher.fetchWithKey(eif, key, force) returns: an error for a fetcher of
\* fetchFails, otherwise nil with fetcher.Packages filled.
fetchWithKeyFails(f) == f \in fetchFails

\* The goroutines that are executing fetchWithKey.
ExecutingFetch ==
    {<<"FetchAll", f>> : f \in {g \in Fetchers : fthread[g] = "fetching"}}
        \cup {<<"inline", fa.i>> : x \in {y \in {1} : fa.pc = "inline"}}
        \cup {<<"pool", i>> :
                i \in {j \in 1..maxParallelFetchers : pool[j].pc = "fetching"}}

\* FetchAll is called (lines 897-903).
CallFetchAll(np) ==
    /\ fa.pc = "idle"
    /\ \A i \in 1..maxParallelFetchers : pool[i].pc = "off"
    /\ fa' = [fa EXCEPT !.pc = "loop", !.i = 1, !.NoParallel = np]
    /\ UNCHANGED <<fetchFails, fetcherPackages, packageMap, fthread, wg,
                   updateRequests, producer, pool>>
    /\ FetchFrame

\* One round of the loop over db.Fetchers (lines 905-923): wg.Add(1), then
\* the fetch is made by this goroutine or a goroutine is started for it.
FetchAll_Loop ==
    /\ fa.pc = "loop"
    /\ IF fa.i > NumFetchers
       THEN /\ fa' = [fa EXCEPT !.pc = "select"]
            /\ UNCHANGED <<wg, fthread>>
       ELSE /\ wg' = wg + 1
            /\ IF fa.NoParallel
               THEN /\ fa' = [fa EXCEPT !.pc = "inline"]
                    /\ UNCHANGED fthread
               ELSE /\ fa' = [fa EXCEPT !.i = @ + 1]
                    /\ fthread' = [fthread EXCEPT ![fa.i] = "fetching"]
    /\ UNCHANGED <<fetchFails, fetcherPackages, packageMap, updateRequests,
                   producer, pool>>
    /\ FetchFrame

\* NoParallel: fetchWithKey returns to the loop (lines 909-912).
FetchAll_Inline ==
    /\ fa.pc = "inline"
    /\ IF fetchWithKeyFails(fa.i)
       THEN /\ fa' = [fa EXCEPT !.pc = "returned", !.ret = "err"]
            /\ UNCHANGED fetcherPackages
       ELSE /\ fa' = [fa EXCEPT !.pc = "loop", !.i = @ + 1]
            /\ fetcherPackages' = fetcherPackages \cup {fa.i}
    /\ UNCHANGED <<fetchFails, packageMap, fthread, wg, updateRequests,
                   producer, pool>>
    /\ FetchFrame

\* The goroutine of fetcher f (lines 914-921): fetchWithKey returns; on an
\* error the goroutine sends it on the unbuffered channel errors, otherwise
\* it ends and the deferred wg.Done() runs.
FetchAll_Goroutine(f) ==
    /\ fthread[f] = "fetching"
    /\ IF fetchWithKeyFails(f)
       THEN /\ fthread' = [fthread EXCEPT ![f] = "sending"]
            /\ UNCHANGED <<fetcherPackages, wg>>
       ELSE /\ fthread' = [fthread EXCEPT ![f] = "done"]
            /\ fetcherPackages' = fetcherPackages \cup {f}
            /\ wg' = wg - 1
    /\ UNCHANGED <<fetchFails, packageMap, fa, updateRequests, producer, pool>>
    /\ FetchFrame

\* select receives from errors (lines 932-934): FetchAll returns the error;
\* the sender goes on and ends.
FetchAll_SelectError(f) ==
    /\ fa.pc = "select"
    /\ fthread[f] = "sending"
    /\ fthread' = [fthread EXCEPT ![f] = "done"]
    /\ wg' = wg - 1
    /\ fa' = [fa EXCEPT !.pc = "returned", !.ret = "err"]
    /\ UNCHANGED <<fetchFails, fetcherPackages, packageMap, updateRequests,
                   producer, pool>>
    /\ FetchFrame

\* select receives from done, which the goroutine of lines 925-929 sends
\* after wg.Wait(); the package map is made anew under the mutex from the
\* Packages of every fetcher (lines 935-949).
FetchAll_SelectDone ==
    /\ fa.pc = "select"
    /\ wg = 0
    /\ packageMap' = fetcherPackages
    /\ fa' = [fa EXCEPT !.pc = "returned", !.ret = "nil"]
    /\ UNCHANGED <<fetchFails, fetcherPackages, fthread, wg, updateRequests,
                   producer, pool>>
    /\ FetchFrame

\* StartAutoRefresh(maxParallelFetchers, refreshTime, forceRefresh), lines
\* 953-1010: the map is made anew, a goroutine is started per fetcher and
\* maxParallelFetchers workers are started.
StartAutoRefresh ==
    /\ fa.pc = "idle"
    /\ \A i \in 1..maxParallelFetchers : pool[i].pc = "off"
    /\ packageMap' = {}
    /\ producer' = [f \in Fetchers |-> "send"]
    /\ pool' = [i \in 1..maxParallelFetchers |-> [pc |-> "recv", fetcher |-> 0]]
    /\ UNCHANGED <<fetchFails, fetcherPackages, fa, fthread, wg, updateRequests>>
    /\ FetchFrame

\* The goroutine of fetcher f sends an update request (lines 965-971 and
\* 973-981); the send waits while the channel is full.
Producer_Send(f) ==
    /\ producer[f] = "send"
    /\ Len(updateRequests) < maxParallelFetchers
    /\ updateRequests' = Append(updateRequests, f)
    /\ producer' = [producer EXCEPT ![f] = "tick"]
    /\ UNCHANGED <<fetchFails, fetcherPackages, packageMap, fa, fthread, wg,
                   pool>>
    /\ FetchFrame

\* The ticker of fetcher f fires (line 973).
Producer_Tick(f) ==
    /\ producer[f] = "tick"
    /\ producer' = [producer EXCEPT ![f] = "send"]
    /\ UNCHANGED <<fetchFails, fetcherPackages, packageMap, fa, fthread, wg,
                   updateRequests, pool>>
    /\ FetchFrame

\* Worker i receives an update request (line 989).
Pool_Receive(i) ==
    /\ pool[i].pc = "recv"
    /\ updateRequests # <<>>
    /\ pool' = [pool EXCEPT ![i] = [pc |-> "fetching",
                                    fetcher |-> Head(updateRequests)]]
    /\ updateRequests' = Tail(updateRequests)
    /\ UNCHANGED <<fetchFails, fetcherPackages, packageMap, fa, fthread, wg,
                   producer>>
    /\ FetchFrame

\* fetchWithKey returns to worker i (lines 993-996): on an error the worker
\* logs it and takes the next request.
Pool_Fetch(i) ==
    /\ pool[i].pc = "fetching"
    /\ IF fetchWithKeyFails(pool[i].fetcher)
       THEN /\ pool' = [pool EXCEPT ![i] = [pc |-> "recv", fetcher |-> 0]]
            /\ UNCHANGED fetcherPackages
       ELSE /\ pool' = [pool EXCEPT ![i].pc = "merge"]
            /\ fetcherPackages' = fetcherPackages \cup {pool[i].fetcher}
    /\ UNCHANGED <<fetchFails, packageMap, fa, fthread, wg, updateRequests,
                   producer>>
    /\ FetchFrame

\* Worker i puts the packages of its fetcher into the map under the mutex
\* (lines 998-1006).
Pool_Merge(i) ==
    /\ pool[i].pc = "merge"
    /\ packageMap' = packageMap \cup {pool[i].fetcher}
    /\ pool' = [pool EXCEPT ![i] = [pc |-> "recv", fetcher |-> 0]]
    /\ UNCHANGED <<fetchFails, fetcherPackages, fa, fthread, wg,
                   updateRequests, producer>>
    /\ FetchFrame

FInit ==
    /\ PlannerOff
    /\ DefsIntact
    /\ EngineOff
    /\ fetchFails \in SUBSET Fetchers
    /\ fetcherPackages = {}
    /\ packageMap = {}
    /\ fa = FaIdle
    /\ fthread = [f \in Fetchers |-> "none"]
    /\ wg = 0
    /\ updateRequests = <<>>
    /\ producer = [f \in Fetchers |-> "off"]
    /\ pool = [i \in 1..maxParallelFetchers |-> PoolIdle]
    /\ MapsOff
    /\ MirrorsOff
    /\ TreeOff
    /\ WebOff
    /\ CondOff

FNext ==
    \/ \E np \in BOOLEAN : CallFetchAll(np)
    \/ FetchAll_Loop
    \/ FetchAll_Inline
    \/ \E f \in Fetchers : FetchAll_Goroutine(f)
    \/ \E f \in Fetchers : FetchAll_SelectError(f)
    \/ FetchAll_SelectDone
    \/ StartAutoRefresh
    \/ \E f \in Fetchers : Producer_Send(f)
    \/ \E f \in Fetchers : Producer_Tick(f)
    \/ \E i \in 1..maxParallelFetchers : Pool_Receive(i)
    \/ \E i \in 1..maxParallelFetchers : Pool_Fetch(i)
    \/ \E i \in 1..maxParallelFetchers : Pool_Merge(i)

SpecFetch == FInit /\ [][FNext]_bvars

\* The Go scheduler runs every goroutine that can take a step: the caller of
\* FetchAll and each goroutine it started go on whenever they are not
\* waiting on a channel or on the wait group.
FetchFairness ==
    /\ WF_bvars(FetchAll_Loop)
    /\ WF_bvars(FetchAll_Inline)
    /\ \A f \in Fetchers : WF_bvars(FetchAll_Goroutine(f))
    /\ WF_bvars(\E f \in Fetchers : FetchAll_SelectError(f))
    /\ WF_bvars(FetchAll_SelectDone)

SpecFetchFair == FInit /\ [][FNext]_bvars /\ FetchFairness

(***************************************************************************)
(* Goroutines using the package map and the build-status map               *)
(***************************************************************************)
MapFrame == UNCHANGED <<evars, pvars, gvars, fvars, mvars, dvars, wvars, cvars>>

\* Goroutine t reaches the place op: it waits for the mutex if the place
\* takes it, otherwise it starts to use the map at once.
MapOp_Begin(t, op) ==
    /\ macc[t].pc = "idle"
    /\ macc' = [macc EXCEPT ![t] = [op |-> op,
                                    pc |-> IF MapOps[op].locks
                                           THEN "lock" ELSE "access"]]
    /\ UNCHANGED mapMutex
    /\ MapFrame

\* mutex.Lock() returns; the goroutine uses the map.
MapOp_Lock(t) ==
    /\ macc[t].pc = "lock"
    /\ mapMutex[MapOps[macc[t].op].map] = 0
    /\ mapMutex' = [mapMutex EXCEPT ![MapOps[macc[t].op].map] = t]
    /\ macc' = [macc EXCEPT ![t].pc = "access"]
    /\ MapFrame

\* The use of the map ends; the mutex is released if it was taken.
MapOp_End(t) ==
    /\ macc[t].pc = "access"
    /\ macc' = [macc EXCEPT ![t] = MapIdle]
    /\ mapMutex' = IF MapOps[macc[t].op].locks
                   THEN [mapMutex EXCEPT ![MapOps[macc[t].op].map] = 0]
                   ELSE mapMutex
    /\ MapFrame

XInit ==
    /\ PlannerOff
    /\ DefsIntact
    /\ EngineOff
    /\ FetchOff
    /\ MapsOff
    /\ MirrorsOff
    /\ TreeOff
    /\ WebOff
    /\ CondOff

XNext ==
    \/ \E t \in Workers, op \in DOMAIN MapOps : MapOp_Begin(t, op)
    \/ \E t \in Workers : MapOp_Lock(t)
    \/ \E t \in Workers : MapOp_End(t)

SpecMaps == XInit /\ [][XNext]_bvars

(***************************************************************************)
(* The mirror table (database.go 325-355)                                  *)
(***************************************************************************)
\* A string is the sequence of its pieces: a URL is its scheme, "://", an
\* optional user, the host, an optional port and an optional path.
Schemes == {"mirror", "MIRROR", "http"}
MirrorNames == {"a", "b"}
UserInfos == {"u@"}
Ports == {":80"}
Paths == {"/x"}
BadEscape == "/%zz"
Bases == {"http://m1", "http://m2"}

Opt(S) == {<<>>} \cup {<<x>> : x \in S}

\* The strings UrlsFor is called with.
UrlStrs ==
    {<<sc, "://", h>> \o pa :
        sc \in Schemes, h \in MirrorNames, pa \in Opt(Paths)}
        \cup {<<sc, "://", h, po, pa>> :
                 sc \in Schemes, h \in MirrorNames, po \in Ports,
                 pa \in Paths}
        \cup {<<sc, "://", u, h, pa>> :
                 sc \in Schemes, u \in UserInfos, h \in MirrorNames,
                 pa \in Paths}
        \cup {<<sc, "://", "a", BadEscape>> : sc \in {"mirror", "http"}}
        \cup {<<"/x">>}

\* The lists of bases AddMirror is called with.
OptionLists == UNION {[1..n -> Bases] : n \in 0..MaxOptions}

\* strings.ToLower on a scheme.
ToLower(piece) == IF piece = "MIRROR" THEN "mirror" ELSE piece

\* url.Parse(urlStr): an error for an escape that is not one, otherwise the
\* scheme in lower case and the host without user and port.
ParseFails(urlStr) == \E i \in 1..Len(urlStr) : urlStr[i] = BadEscape

Scheme(urlStr) ==
    IF Len(urlStr) >= 2 /\ urlStr[2] = "://" THEN ToLower(urlStr[1]) ELSE ""

Hostname(urlStr) ==
    CASE Scheme(urlStr) = "" -> ""
      [] Len(urlStr) >= 4 /\ urlStr[3] \in UserInfos -> urlStr[4]
      [] Len(urlStr) >= 3 -> urlStr[3]
      [] OTHER -> ""

HasPrefix(str, prefix) ==
    /\ Len(prefix) <= Len(str)
    /\ SubSeq(str, 1, Len(prefix)) = prefix

\* strings.TrimPrefix(str, prefix)
TrimPrefix(str, prefix) ==
    IF HasPrefix(str, prefix)
    THEN SubSeq(str, Len(prefix) + 1, Len(str))
    ELSE str

\* Mutant: the result is built from the end of the list.
AppendSuffix_Reversed(list, suffix) ==
    [i \in 1..Len(list) |-> <<list[Len(list) + 1 - i]>> \o suffix]

\* The loop of lines 346-348: url + suffix for each url of the list.
AppendSuffix(list, suffix) ==
    [i \in 1..Len(list) |-> <<list[i]>> \o suffix]

\* db.UrlsFor(urlStr), lines 325-351.
UrlsForResult(urlStr) ==
    CASE ParseFails(urlStr) -> [ret |-> <<>>, err |-> "parse"]
      [] Scheme(urlStr) # "mirror" -> [ret |-> <<urlStr>>, err |-> "nil"]
      [] Hostname(urlStr) \notin DOMAIN mirrors ->
            [ret |-> <<>>, err |-> "not defined"]
      [] OTHER ->
            [ret |-> AppendSuffix(mirrors[Hostname(urlStr)],
                                  TrimPrefix(urlStr, <<"mirror", "://",
                                                       Hostname(urlStr)>>)),
             err |-> "nil"]

MirrorFrame == UNCHANGED <<evars, pvars, gvars, fvars, xvars, dvars, wvars, cvars>>

UrlsFor(urlStr) ==
    /\ urls' = [urlStr |-> urlStr, ret |-> UrlsForResult(urlStr).ret,
                err |-> UrlsForResult(urlStr).err]
    /\ UNCHANGED mirrors
    /\ MirrorFrame

\* db.AddMirror(name, options), lines 353-356.
AddMirror(name, options) ==
    /\ mirrors' = [n \in DOMAIN mirrors \cup {name} |->
                     IF n = name THEN options ELSE mirrors[n]]
    /\ UNCHANGED urls
    /\ MirrorFrame

MInit ==
    /\ PlannerOff
    /\ DefsIntact
    /\ EngineOff
    /\ FetchOff
    /\ MapsOff
    /\ MirrorsOff
    /\ TreeOff
    /\ WebOff
    /\ CondOff

MNext ==
    \/ \E name \in MirrorNames, options \in OptionLists :
         AddMirror(name, options)
    \/ \E urlStr \in UrlStrs : UrlsFor(urlStr)

SpecMirror == MInit /\ [][MNext]_bvars

(***************************************************************************)
(* The virtual directory tree (filesystem/directory.go)                    *)
(***************************************************************************)
\* A path is the list of its tokens after path.Clean and strings.Split.
\* The paths used have at most two tokens.
TreePaths == {<<"a">>, <<"d">>, <<"d", "a">>}

\* The files put into the tree: the kind and which of the writes it is.
TreeFiles ==
    [kind : {"Regular", "Symlink", "Link"}, id : 1..NumVersions]

\* A directory made by Mkdir; id is the mode, owner and times last set.
DirFile(id) == [kind |-> "Directory", id |-> id]

IsDirectory(f) == f.kind = "Directory"

\* The entries of an archive: a type flag, a name and the version.  A
\* symbolic link is never named d, so no path leads through a link.
ArchiveEntries ==
    {e \in [typeflag : {"Directory", "Regular", "Symlink", "Link", "Other"},
            name : TreePaths, id : 1..NumVersions] :
        /\ e.typeflag = "Directory" => e.name = <<"d">>
        /\ e.typeflag \in {"Symlink", "Link"} => e.name # <<"d">>}

\* memoryDirectory.Create(name, f), lines 264-282, on the directory that
\* holds path: an entry that exists is kept and nil is returned.
memoryDirectory_Create(dir, path, f) ==
    IF path \in DOMAIN dir.entries
    THEN dir
    ELSE [entries |-> [q \in DOMAIN dir.entries \cup {path} |->
                         IF q = path THEN f ELSE dir.entries[q]],
          names |-> Append(dir.names, path)]

\* memoryDirectory.Mkdir(name), lines 300-326.
memoryDirectory_Mkdir(dir, path) ==
    CASE path \notin DOMAIN dir.entries ->
            [dir |-> memoryDirectory_Create(dir, path, DirFile(0)),
             err |-> "nil"]
      [] IsDirectory(dir.entries[path]) -> [dir |-> dir, err |-> "nil"]
      [] OTHER -> [dir |-> dir, err |-> "entry is not a directory"]

\* The loop over tokens[:len(tokens)-1] of Mkdir and CreateChild (lines
\* 106-133 and 155-180): a directory that is missing is made, and a child
\* that is not a directory is an error of resolveDirectory (lines 38-66).
WalkParents(dir, path) ==
    IF Len(path) = 1
    THEN [dir |-> dir, err |-> "nil"]
    ELSE CASE <<path[1]>> \notin DOMAIN dir.entries ->
                 memoryDirectory_Mkdir(dir, <<path[1]>>)
           [] IsDirectory(dir.entries[<<path[1]>>]) ->
                 [dir |-> dir, err |-> "nil"]
           [] OTHER -> [dir |-> dir, err |-> "child is not a directory"]

\* CreateChild(dir, p, f), lines 150-188.
CreateChildResult(dir, path, f) ==
    IF WalkParents(dir, path).err # "nil"
    THEN WalkParents(dir, path)
    ELSE [dir |-> memoryDirectory_Create(WalkParents(dir, path).dir, path, f),
          err |-> "nil"]

\* Mkdir(dir, p), lines 100-148.
MkdirResult(dir, path) ==
    IF WalkParents(dir, path).err # "nil"
    THEN WalkParents(dir, path)
    ELSE memoryDirectory_Mkdir(WalkParents(dir, path).dir, path)

\* child.Chmod, child.Chown and child.Chtimes of ExtractEntry (lines 386-396)
SetAttributes(dir, path, id) == [dir EXCEPT !.entries[path] = DirFile(id)]

\* OpenPath(dir, p), lines 68-98.
OpenPath(dir, path) ==
    CASE Len(path) = 2 /\ <<path[1]>> \notin DOMAIN dir.entries ->
            [file |-> NoDres.file, err |-> "ErrNotExist"]
      [] Len(path) = 2 /\ ~IsDirectory(dir.entries[<<path[1]>>]) ->
            [file |-> NoDres.file, err |-> "child is not a directory"]
      [] path \notin DOMAIN dir.entries ->
            [file |-> NoDres.file, err |-> "ErrNotExist"]
      [] OTHER -> [file |-> dir.entries[path], err |-> "nil"]

TreeFrame == UNCHANGED <<evars, pvars, gvars, fvars, xvars, mvars, wvars, cvars>>

\* CreateChild(dir, p, f): a file is added to the tree.
CreateChild(path, f) ==
    /\ root' = CreateChildResult(root, path, f).dir
    /\ dres' = [op |-> "CreateChild", path |-> path, file |-> f,
                err |-> CreateChildResult(root, path, f).err]
    /\ TreeFrame

\* ExtractEntry(ent, dir), lines 374-409.
ExtractEntry(ent) ==
    /\ CASE ent.typeflag = "Directory" ->
              /\ root' = IF MkdirResult(root, ent.name).err = "nil"
                         THEN SetAttributes(MkdirResult(root, ent.name).dir,
                                            ent.name, ent.id)
                         ELSE MkdirResult(root, ent.name).dir
              /\ dres' = [op |-> "ExtractEntry", path |-> ent.name,
                          file |-> DirFile(ent.id),
                          err |-> MkdirResult(root, ent.name).err]
         [] ent.typeflag \in {"Regular", "Symlink", "Link"} ->
              /\ root' = CreateChildResult(root, ent.name,
                             [kind |-> ent.typeflag, id |-> ent.id]).dir
              /\ dres' = [op |-> "ExtractEntry", path |-> ent.name,
                          file |-> [kind |-> ent.typeflag, id |-> ent.id],
                          err |-> CreateChildResult(root, ent.name,
                                     [kind |-> ent.typeflag,
                                      id |-> ent.id]).err]
         [] OTHER ->
              /\ root' = root
              /\ dres' = [op |-> "ExtractEntry", path |-> ent.name,
                          file |-> [kind |-> ent.typeflag, id |-> ent.id],
                          err |-> "unknown Entry type"]
    /\ TreeFrame

DInit ==
    /\ PlannerOff
    /\ DefsIntact
    /\ EngineOff
    /\ FetchOff
    /\ MapsOff
    /\ MirrorsOff
    /\ TreeOff
    /\ WebOff
    /\ CondOff

DNext ==
    \/ \E ent \in ArchiveEntries : ExtractEntry(ent)
    \/ \E path \in TreePaths, f \in TreeFiles : CreateChild(path, f)

SpecTree == DInit /\ [][DNext]_bvars

\* The names given to the methods of one memoryDirectory, the root.
DirNames == {<<"a">>, <<"d">>}

\* The most names the list m.names is let grow to.
MaxNames == 4

\* The nil File: what m.entries[name] yields for a name that is not a key.
NilFile == [kind |-> "nil", id |-> 0]

\* memoryDirectory.Unlink(name), lines 253-261: delete(m.entries, name).
\* The entry leaves the map, and with a directory everything under it; the
\* name stays in m.names.
memoryDirectory_Unlink(dir, path) ==
    [entries |-> [q \in {e \in DOMAIN dir.entries : e[1] # path[1]} |->
                    dir.entries[q]],
     names |-> SelectSeq(dir.names,
                         LAMBDA q : Len(q) = 1 \/ q[1] # path[1])]

\* memoryDirectory.Readdir(), lines 344-354, of the root: one
\* DirectoryEntry for each name of m.names, with the File m.entries[name].
Readdir(dir) ==
    LET names == SelectSeq(dir.names, LAMBDA q : Len(q) = 1) IN
    [i \in 1..Len(names) |->
        [Name |-> names[i],
         File |-> IF names[i] \in DOMAIN dir.entries
                  THEN dir.entries[names[i]] ELSE NilFile]]

\* root.Create(name, f)
Dir_Create(path, f) ==
    /\ Len(root.names) < MaxNames
    /\ root' = memoryDirectory_Create(root, path, f)
    /\ dres' = [op |-> "Create", path |-> path, file |-> f, err |-> "nil"]
    /\ TreeFrame

\* root.Mkdir(name)
Dir_Mkdir(path) ==
    /\ Len(root.names) < MaxNames
    /\ root' = memoryDirectory_Mkdir(root, path).dir
    /\ dres' = [op |-> "Mkdir", path |-> path, file |-> DirFile(0),
                err |-> memoryDirectory_Mkdir(root, path).err]
    /\ TreeFrame

\* root.Unlink(name)
Dir_Unlink(path) ==
    /\ root' = memoryDirectory_Unlink(root, path)
    /\ dres' = [op |-> "Unlink", path |-> path, file |-> NoDres.file,
                err |-> "nil"]
    /\ TreeFrame

DirNext ==
    \/ \E path \in DirNames, f \in TreeFiles : Dir_Create(path, f)
    \/ \E path \in DirNames : Dir_Mkdir(path)
    \/ \E path \in DirNames : Dir_Unlink(path)

SpecDir == DInit /\ [][DirNext]_bvars

\* Paths through symbolic links.  The names are a and d, a path has one or
\* two tokens, and a symbolic link holds the name of a child of the root, so
\* that path.Join(path.Dir(name), target) of a link in the root is target.
LinkTokens == {"a", "d"}

LinkPaths ==
    {<<x>> : x \in LinkTokens} \cup {<<x, "a">> : x \in LinkTokens}

\* A symbolic link with the link name target.
LinkTo(target) == [kind |-> "Symlink", id |-> 1, target |-> target]

\* The files put into the tree: a regular file and links to a and to d.
LinkFiles ==
    {[kind |-> "Regular", id |-> 1]} \cup {LinkTo(<<x>>) : x \in LinkTokens}

RECURSIVE resolveDirectory(_, _, _)
\* resolveDirectory(root, file, name), lines 38-66, for the child file of the
\* root found under name; calls holds the names of the calls that have not
\* returned.  A directory is returned; for a link the target is opened with
\* OpenPath(root, newTarget) and resolved by a further call; any other file
\* is an error.  The calls read the tree and change nothing, so a call for a
\* name that is among calls repeats without end until the stack of the
\* goroutine is exhausted and the process is ended.
resolveDirectory(dir, name, calls) ==
    LET file == dir.entries[name] IN
    CASE IsDirectory(file) -> [err |-> "nil", at |-> name]
      [] file.kind = "Symlink" ->
            IF file.target \notin DOMAIN dir.entries
            THEN [err |-> "ErrNotExist", at |-> name]
            ELSE IF file.target \in calls \cup {name}
            THEN [err |-> "stack overflow", at |-> name]
            ELSE resolveDirectory(dir, file.target, calls \cup {name})
      [] OTHER -> [err |-> "child is not a directory", at |-> name]

\* The loop over tokens[:len(tokens)-1] of OpenPath (lines 75-87): the
\* directory that holds the last token, or the error.
OpenParent(dir, path) ==
    CASE Len(path) = 1 -> [err |-> "nil", at |-> <<>>]
      [] <<path[1]>> \notin DOMAIN dir.entries ->
            [err |-> "ErrNotExist", at |-> <<>>]
      [] OTHER -> resolveDirectory(dir, <<path[1]>>, {})

\* OpenPath(dir, p), lines 68-98, with the links followed.
OpenPathResult(dir, path) ==
    LET parent == OpenParent(dir, path)
        child == parent.at \o <<path[Len(path)]>>
    IN  CASE parent.err # "nil" -> [file |-> NoDres.file, err |-> parent.err]
          [] child \notin DOMAIN dir.entries ->
                [file |-> NoDres.file, err |-> "ErrNotExist"]
          [] OTHER -> [file |-> dir.entries[child], err |-> "nil"]

\* The loop over tokens[:len(tokens)-1] of Mkdir and CreateChild (lines
\* 106-133 and 155-180) with the links followed: a directory that is
\* missing is made, a child that exists is resolved.
WalkResolved(dir, path) ==
    CASE Len(path) = 1 -> [dir |-> dir, err |-> "nil", at |-> <<>>]
      [] <<path[1]>> \notin DOMAIN dir.entries ->
            [dir |-> memoryDirectory_Mkdir(dir, <<path[1]>>).dir,
             err |-> "nil", at |-> <<path[1]>>]
      [] OTHER ->
            [dir |-> dir,
             err |-> resolveDirectory(dir, <<path[1]>>, {}).err,
             at |-> resolveDirectory(dir, <<path[1]>>, {}).at]

\* OpenPath(root, p) is called.
Link_OpenPath(path) ==
    /\ root' = root
    /\ dres' = [op |-> "OpenPath", path |-> path,
                file |-> OpenPathResult(root, path).file,
                err |-> OpenPathResult(root, path).err]
    /\ TreeFrame

\* Mkdir(root, p) is called, lines 100-148.
Link_Mkdir(path) ==
    LET w == WalkResolved(root, path)
        child == w.at \o <<path[Len(path)]>>
    IN  /\ root' = IF w.err = "nil"
                   THEN memoryDirectory_Mkdir(w.dir, child).dir ELSE w.dir
        /\ dres' = [op |-> "Mkdir", path |-> path, file |-> DirFile(0),
                    err |-> IF w.err = "nil"
                            THEN memoryDirectory_Mkdir(w.dir, child).err
                            ELSE w.err]
        /\ TreeFrame

\* CreateChild(root, p, f) is called, lines 150-188.
Link_CreateChild(path, f) ==
    LET w == WalkResolved(root, path)
        child == w.at \o <<path[Len(path)]>>
    IN  /\ root' = IF w.err = "nil"
                   THEN memoryDirectory_Create(w.dir, child, f) ELSE w.dir
        /\ dres' = [op |-> "CreateChild", path |-> path, file |-> f,
                    err |-> w.err]
        /\ TreeFrame

LinkNext ==
    \/ \E path \in LinkPaths : Link_OpenPath(path)
    \/ \E path \in LinkPaths : Link_Mkdir(path)
    \/ \E path \in LinkPaths, f \in LinkFiles : Link_CreateChild(path, f)

SpecLink == DInit /\ [][LinkNext]_bvars

(***************************************************************************)
(* The web application (trweb/web.go)                                      *)
(***************************************************************************)
\* The most VM processes started.
MaxStarts == 4

WebFrame == UNCHANGED <<evars, pvars, gvars, fvars, xvars, mvars, dvars, cvars>>

\* The Cmd of the started process p.
CmdOf(p) == [set |-> TRUE, proc |-> p]

\* exec.Command(exe, "run-vm", filename): a Cmd whose Process is nil.
NewCmd == [set |-> TRUE, proc |-> 0]

Response(req, status, to) == [req |-> req, status |-> status, to |-> to]

\* runTemplate(filename), lines 113-126, whose Start succeeds (launches) or
\* fails: runningCmd is assigned before Start is called.
runTemplate(launches) ==
    IF launches
    THEN /\ runningCmd' = CmdOf(started + 1)
         /\ procs' = procs \cup {started + 1}
         /\ started' = started + 1
    ELSE /\ runningCmd' = NewCmd
         /\ UNCHANGED <<procs, started>>

\* handleStart, lines 147-178: POST /start.  made: "form" when the form
\* does not parse, "template" when no template is made, otherwise "ok";
\* launches: the process started.
handleStart(made, launches) ==
    /\ started < MaxStarts
    /\ IF made # "ok"
       THEN /\ wres' = Response("POST /start",
                                IF made = "form" THEN 400 ELSE 500, made)
            /\ UNCHANGED <<runningCmd, procs, started>>
       ELSE /\ runTemplate(launches)
            /\ wres' = IF launches THEN Response("POST /start", 302, "/run")
                                   ELSE Response("POST /start", 500, "run")
    /\ WebFrame

\* handleStop, lines 180-191: POST /stop.  With a Cmd whose Process is nil
\* the call runningCmd.Process.Kill() dereferences nil: the handler panics
\* and the server closes the connection without a response.
handleStop ==
    /\ CASE ~runningCmd.set ->
              /\ wres' = Response("POST /stop", 302, "/")
              /\ UNCHANGED <<runningCmd, procs>>
         [] runningCmd.set /\ runningCmd.proc = 0 ->
              /\ wres' = Response("POST /stop", 0, "panic")
              /\ UNCHANGED <<runningCmd, procs>>
         [] OTHER ->
              /\ procs' = procs \ {runningCmd.proc}
              /\ runningCmd' = NilCmd
              /\ wres' = Response("POST /stop", 302, "/")
    /\ UNCHANGED started
    /\ WebFrame

\* serveIndex, lines 64-95: GET /.
serveIndex ==
    /\ wres' = IF runningCmd.set THEN Response("GET /", 302, "/run")
                                 ELSE Response("GET /", 200, "form")
    /\ UNCHANGED <<runningCmd, procs, started>>
    /\ WebFrame

\* serveRun, lines 97-111: GET /run.
serveRun ==
    /\ wres' = IF runningCmd.set THEN Response("GET /run", 200, "stop form")
                                 ELSE Response("GET /run", 302, "/")
    /\ UNCHANGED <<runningCmd, procs, started>>
    /\ WebFrame

WInit ==
    /\ PlannerOff
    /\ DefsIntact
    /\ EngineOff
    /\ OthersOff

WNext ==
    \/ \E made \in {"ok", "form", "template"}, launches \in BOOLEAN :
         handleStart(made, launches)
    \/ handleStop
    \/ serveIndex
    \/ serveRun

SpecWeb == WInit /\ [][WNext]_bvars

(***************************************************************************)
(* Conditions on packages (planner2)                                       *)
(***************************************************************************)
\* The most conditions in an AndCondition or OrCondition that is given.
MaxCondLen == 2

CondFrame == UNCHANGED <<evars, pvars, gvars, fvars, xvars, mvars, dvars, wvars>>

\* AndCondition(cs), OrCondition(cs), NotCondition{c}
And(cs) == [t |-> "and", cs |-> cs]

Or(cs) == [t |-> "or", cs |-> cs]

Not(c) == [t |-> "not", c |-> c]

\* The conditions built in one step from those of S.
BuildFrom(S) ==
    {Not(c) : c \in S}
        \cup {And(cs) : cs \in UNION {[1..k -> S] : k \in 0..MaxCondLen}}
        \cup {Or(cs) : cs \in UNION {[1..k -> S] : k \in 0..MaxCondLen}}

\* The conditions given: built in at most two steps from IdentityCondition.
Conds1 == {Identity} \cup BuildFrom({Identity})

Conds == Conds1 \cup BuildFrom(Conds1)

PackageNames == {"p", "q"}

RECURSIVE CondSatisfies(_, _)
\* Condition.Satisfies(name), lines 7-9, 15-28, 44-57 and 75-86: is the
\* result MatchResultMatched?  No condition of these types returns an error.
CondSatisfies(c, name) ==
    CASE c.t = "identity" -> TRUE
      [] c.t = "and" -> \A i \in 1..Len(c.cs) : CondSatisfies(c.cs[i], name)
      [] c.t = "or" -> \E i \in 1..Len(c.cs) : CondSatisfies(c.cs[i], name)
      [] c.t = "not" -> ~CondSatisfies(c.c, name)

RECURSIVE Key(_)
RECURSIVE JoinKeys(_, _)
\* strings.Join(ret, ",") of the keys of cs from index i on.
JoinKeys(cs, i) ==
    IF i > Len(cs) THEN <<>>
    ELSE IF i = Len(cs) THEN Key(cs[i])
    ELSE Key(cs[i]) \o <<",">> \o JoinKeys(cs, i + 1)

\* Condition.Key(), lines 11, 30-38, 59-67 and 88-90: the string, as the
\* list of its pieces.
Key(c) ==
    CASE c.t = "identity" -> <<"identity">>
      [] c.t = "and" -> <<"and(">> \o JoinKeys(c.cs, 1) \o <<")">>
      [] c.t = "or" -> <<"or(">> \o JoinKeys(c.cs, 1) \o <<")">>
      [] c.t = "not" -> <<"not(">> \o Key(c.c) \o <<")">>

\* CombineConditions(a, b), lines 101-130.
CombineConditions(a, b) ==
    IF Key(a) = Key(b) THEN a
    ELSE IF Key(a) = <<"identity">> THEN b
    ELSE IF Key(b) = <<"identity">> THEN a
    ELSE CASE a.t = "and" ->
                 IF b.t = "and" THEN And(a.cs \o b.cs)
                 ELSE And(Append(a.cs, b))
           [] a.t = "or" ->
                 IF b.t = "or" THEN Or(a.cs \o b.cs)
                 ELSE Or(Append(a.cs, b))
           [] OTHER -> And(<<a, b>>)

MatchResult(ok) == IF ok THEN "Matched" ELSE "NoMatch"

\* combined = planner2.CombineConditions(combined, condition)
Cond_Combine ==
    /\ cond.pc = "given"
    /\ cond' = [cond EXCEPT !.pc = "combined",
                            !.combined = CombineConditions(cond.a, cond.b)]
    /\ CondFrame

\* combined.Satisfies(name)
Cond_Satisfies(name) ==
    /\ cond.pc = "combined"
    /\ cond' = [cond EXCEPT !.pc = "checked", !.name = name,
                            !.res = MatchResult(CondSatisfies(cond.combined,
                                                              name))]
    /\ CondFrame

CondInit ==
    /\ PlannerOff
    /\ DefsIntact
    /\ EngineOff
    /\ FetchOff
    /\ MapsOff
    /\ MirrorsOff
    /\ TreeOff
    /\ WebOff
    /\ \E a \in Conds, b \in Conds :
         cond = [pc |-> "given", a |-> a, b |-> b, combined |-> Identity,
                 name |-> "", res |-> "none"]

CondNext ==
    \/ Cond_Combine
    \/ \E name \in PackageNames : Cond_Satisfies(name)

SpecCond == CondInit /\ [][CondNext]_bvars

(***************************************************************************)
(* Properties of the build engine                                          *)
(***************************************************************************)
ReturnedFrom(w) == worker[w].pc = "idle" /\ worker[w].ret.kind # "none"

ReturnedOk(w) == worker[w].pc = "idle" /\ worker[w].ret.kind = "ok"

ReturnedErr(w) == worker[w].pc = "idle" /\ worker[w].ret.kind = "err"

BinComplete == \A h \in Hashes : Exists(bin[h]) => Complete(bin[h])

\* bin changes only by a rename of tmp, made by a worker that holds no open
\* handle, and the file named bin is not written afterwards.
BinOnlyByRename ==
    \A h \in Hashes :
        bin'[h] # bin[h] =>
            /\ Exists(tmp[h]) /\ bin'[h] = tmp[h] /\ ~Exists(tmp'[h])
            /\ \E w \in Workers :
                 /\ worker[w].pc \in {"rename", "dlrename"}
                 /\ H(w) = h
                 /\ worker[w].fd = "none"
                 /\ worker'[w].pc # worker[w].pc

\* C1: with Build calls made one at a time, <hash>.bin is at every moment
\* absent or holds the complete bytes of one finished write; it changes only
\* through the rename of the closed tmp file.
C1_BinAtomic == []BinComplete /\ [][BinOnlyByRename]_bvars

\* A rebuild failed in the middle of its write and the earlier bin is intact.
C1_Witness ==
    /\ ReturnedErr(1)
    /\ worker[1].ret.at \in {"WriteResult", "Copy"}
    /\ worker[1].binAtStart
    /\ Complete(bin[H(1)])

\* C2: after any call to Build has returned, with success or with an error,
\* no <hash>.bin.tmp exists.
C2_NoTmpAfterReturn ==
    \A w \in Workers : ReturnedFrom(w) => ~Exists(tmp[H(w)])

\* C3: whenever Build returns a file without an error, <hash>.bin and
\* <hash>.def both exist.
C3_BinAndDefExist ==
    \A w \in Workers :
        ReturnedOk(w) => Exists(bin[H(w)]) /\ H(w) \in defFile

\* Build returned the existing artifact because def.Build answered nil.
C3_Witness ==
    /\ ReturnedOk(1)
    /\ worker[1].ret.at = "Nil"
    /\ Exists(bin[H(1)])
    /\ H(1) \in defFile

InCall(w) == worker[w].pc # "idle"

\* C4: of the workers that are in Build for the same hash at the same time,
\* only one runs def.Build and only one renames tmp to bin.
C4_OneBuildOneRename ==
    \A w1, w2 \in Workers :
        (w1 # w2 /\ InCall(w1) /\ InCall(w2) /\ H(w1) = H(w2)) =>
            /\ ~("def.Build" \in worker[w1].did /\ "def.Build" \in worker[w2].did)
            /\ ~("Rename" \in worker[w1].did /\ "Rename" \in worker[w2].did)

\* C5: under concurrent Build calls for one hash, bin never shows partial
\* or truncated content: the file named bin is complete and no worker holds
\* a handle through which it is still written or truncated.
C5_BinNeverTorn ==
    \A h \in Hashes :
        Exists(bin[h]) =>
            /\ Complete(bin[h])
            /\ \A w \in Workers : ~(H(w) = h /\ worker[w].fd = "bin")

\* A Build that failed in def.Build, WriteResult, close or rename, and that
\* found no bin when it started, leaves no bin and no cache entry.
FailLeavesNothing ==
    \A w \in Workers :
        (ReturnedErr(w) /\ worker[w].ret.at \in FailAts /\ ~worker[w].binAtStart)
            => ~Exists(bin[H(w)]) /\ H(w) \notin buildCache

\* The Build that follows such a failure, when it succeeds, leaves a complete
\* bin with status Built.
RetryBuilds ==
    \A w \in Workers :
        (ReturnedOk(w) /\ worker[w].retry) =>
            /\ Complete(bin[H(w)])
            /\ buildStatuses[worker[w].def] = BuildStatusBuilt

\* C6 as stated: the Build that follows such a failure always runs def.Build.
C6_RetryRunsDefBuild ==
    /\ FailLeavesNothing
    /\ RetryBuilds
    /\ \A w \in Workers :
         (ReturnedOk(w) /\ worker[w].retry) => "def.Build" \in worker[w].did

\* C6, amended: after such a failure there is no bin and no cache entry, and
\* the next Build of the definition, when it succeeds, leaves a complete bin
\* with status Built, having run def.Build unless the mirror supplied it.
C6_RetryBuildsOrDownloads ==
    /\ FailLeavesNothing
    /\ RetryBuilds
    /\ \A w \in Workers :
         (ReturnedOk(w) /\ worker[w].retry) =>
             \/ "def.Build" \in worker[w].did
             \/ worker[w].ret.at = "Downloaded"

\* The retry after a failed Build built the artifact.
C6_Witness ==
    /\ ReturnedOk(1)
    /\ worker[1].retry
    /\ "def.Build" \in worker[1].did
    /\ Complete(bin[H(1)])
    /\ H(1) \in buildCache

(***************************************************************************)
(* Properties of the planner                                               *)
(***************************************************************************)
\* The planner has returned a plan: MakeInstallationPlan without an error,
\* or plan.add without an error on an incremental plan.
PlanReturned ==
    /\ pres.op \in {"make", "add"}
    /\ pres.err = NoErr
    /\ plan # NoPlan

\* The positions of package id in plan.Packages.
Positions(id) == {i \in 1..Len(plan.Packages) : plan.Packages[i] = id}

InPackages(id) == Positions(id) # {}

\* D is in plan.Packages before every occurrence of P.
Before(D, P) ==
    \E i \in Positions(D) : \A j \in Positions(P) : i < j

\* The edges between packages; the edges from 0 are the requests of the user.
DependencyEdges ==
    {plan.dependencyGraph[i] : i \in 1..Len(plan.dependencyGraph)}

RECURSIVE ReachableFrom(_, _)
\* The packages that are reached from the set S over k edges or fewer.
ReachableFrom(S, k) ==
    IF k = 0 THEN S
    ELSE ReachableFrom(S \cup {e[2] : e \in {f \in DependencyEdges : f[1] \in S}},
                       k - 1)

\* D depends on P, directly or not; D = P included.
DependsOn(D, P) == P \in ReachableFrom({D}, Len(Pkgs))

ShortNamesOf(db) ==
    LET ids == UNION ({{db.Fetchers[i].Packages[j] :
                           j \in 1..Len(db.Fetchers[i].Packages)} :
                       i \in 1..Len(db.Fetchers)}
                      \cup
                      {{db.SearchProviders[i].answers[n][j] :
                           j \in 1..Len(db.SearchProviders[i].answers[n])} :
                       i \in 1..Len(db.SearchProviders), n \in Names})
    IN  {ShortName(Pkgs[id].name) : id \in ids}
        \cup UNION {{ShortName(Pkgs[id].aliases[k]) :
                        k \in 1..Len(Pkgs[id].aliases)} : id \in ids}

\* C8: addPackage terminates, no package is appended to plan.Packages more
\* than once, and the recursion is no deeper than the number of distinct
\* short names, whatever the names under which a found package is recorded.
C8_AddedOnceBoundedDepth ==
    pres.op \in {"make", "add"} =>
        /\ pres.err.kind # "Overflow"
        /\ \A id \in 1..Len(Pkgs) : Cardinality(Positions(id)) <= 1
        /\ pres.depth <= Cardinality(ShortNamesOf(Dbs[pdb]))

\* Edge k is the one at which its package was picked: the first that
\* leads to it.
Picks(k) ==
    \A m \in 1..(k - 1) : plan.dependencyGraph[m][2] # plan.dependencyGraph[k][2]

RECURSIVE InstalledAt(_, _, _)
RECURSIVE ConflictedAt(_)

\* The version that is installed for short name sn when the conflicts of
\* the package picked at edge k are checked, going back from edge i: the own
\* name of the package of edge k, and before it the names of the packages
\* picked earlier, aliases after the own name, and no aliases of a package
\* that was in conflict; -1 when there is none.
InstalledAt(sn, k, i) ==
    IF i = 0 THEN -1
    ELSE
    LET id == plan.dependencyGraph[i][2]
        ali == {a \in 1..Len(Pkgs[id].aliases) :
                   ShortName(Pkgs[id].aliases[a]) = sn}
    IN  IF ~Picks(i) THEN InstalledAt(sn, k, i - 1)
        ELSE IF i < k /\ ali # {} /\ ~ConflictedAt(i)
        THEN Pkgs[id].aliases[CHOOSE a \in ali : \A b \in ali : b <= a].version
        ELSE IF ShortName(Pkgs[id].name) = sn THEN Pkgs[id].name.version
        ELSE InstalledAt(sn, k, i - 1)

\* The package picked at edge k declares a conflict that what was installed
\* when it was picked matches.
ConflictedAt(k) ==
    LET id == plan.dependencyGraph[k][2] IN
    /\ Picks(k)
    /\ \E i \in 1..Len(Pkgs[id].conflicts) :
         \E j \in 1..Len(Pkgs[id].conflicts[i]) :
            LET option == Pkgs[id].conflicts[i][j]
                ver == InstalledAt(ShortName(option), k, k)
            IN  ver # -1 /\ versionMatches(ver, option.pred)

\* C10: a package that declares a conflict which an installed name of a
\* matching version meets is never part of a plan: the add fails with a
\* conflict error, and MakeInstallationPlan returns the error and no plan.
C10_ConflictAborts ==
    /\ plan # NoPlan =>
         \A k \in 1..Len(plan.dependencyGraph) :
            ConflictedAt(k) => ~InPackages(plan.dependencyGraph[k][2])
    /\ (pres.op = "make" /\ pres.err # NoErr) => plan = NoPlan

\* MakeInstallationPlan met the conflict in a dependency and returned the
\* error without a plan.
C10_Witness ==
    /\ pdb = 5
    /\ pres.op = "make"
    /\ pres.err.kind = "Conflict"
    /\ pres.err.wrapped
    /\ plan = NoPlan

\* The short names that package id is recorded under.
NamesOf(id) ==
    {ShortName(Pkgs[id].name)}
        \cup {ShortName(Pkgs[id].aliases[k]) : k \in 1..Len(Pkgs[id].aliases)}

\* The edges that lead from package id, in the order they were recorded.
EdgesFrom(id) == SelectSeq(plan.dependencyGraph, LAMBDA e : e[1] = id)

\* The option is left out because it is only recommended.
Skipped(option) == option.recommended /\ plan.queryOptions.ExcludeRecommends

\* The repositories and the search providers have nothing for the option.
NothingFound(option) ==
    Search(Dbs[pdb], option, plan.queryOptions).results = <<>>

\* Package target answers option oi of the group.
Answers(target, option) ==
    \/ \E i \in 1..Len(Search(Dbs[pdb], option, plan.queryOptions).results) :
         Search(Dbs[pdb], option, plan.queryOptions).results[i] = target
    \/ ShortName(option) \in NamesOf(target)

\* The group was satisfied by target through its first option that is not
\* skipped and for which something is found or installed.
SatisfiedInOrder(group, target) ==
    \E oi \in 1..Len(group) :
        /\ ~Skipped(group[oi])
        /\ Answers(target, group[oi])
        /\ \A oj \in 1..(oi - 1) : Skipped(group[oj]) \/ NothingFound(group[oj])

\* No option of the group can be satisfied from the repositories.
NoCandidate(group) ==
    \A oi \in 1..Len(group) : Skipped(group[oi]) \/ NothingFound(group[oi])

\* C11: the options of a dependency group are tried in list order, an option
\* that is not found is skipped, the first one installed or installable
\* satisfies the group and no other option of it is added; a group without
\* a candidate fails the planning as unresolved.
C11_OptionsInOrder ==
    /\ PlanReturned =>
         \A id \in 1..Len(Pkgs) :
            Cardinality(Positions(id)) = 1 =>
                /\ Len(EdgesFrom(id)) = Len(Pkgs[id].depends)
                /\ \A g \in 1..Len(Pkgs[id].depends) :
                     SatisfiedInOrder(Pkgs[id].depends[g], EdgesFrom(id)[g][2])
    /\ (pres.op = "add" /\ pres.err.kind = "Unresolved") =>
         \E k \in 1..Len(plan.dependencyGraph) :
            LET id == plan.dependencyGraph[k][2] IN
            /\ ~InPackages(id)
            /\ \E g \in 1..Len(Pkgs[id].depends) : NoCandidate(Pkgs[id].depends[g])

\* d depends on [x, c]: x is not found and c satisfies the group.
C11_Witness ==
    /\ PlanReturned
    /\ pdb = 4
    /\ plan.Packages = <<15, 16>>
    /\ <<16, 15>> \in DependencyEdges

\* The user asked for package id and for nothing else.
OnlyRequested(id) ==
    /\ <<0, id>> \in DependencyEdges
    /\ \A e \in DependencyEdges : e[1] = 0 => e[2] = id

\* C12: with ExcludeRecommends no dependency is satisfied through a
\* recommended option, and without it a recommended option counts like any
\* other: for a, whose only group is [b (recommended), c], the plan holds c
\* and not b with ExcludeRecommends and b and not c without.
C12_Recommends ==
    PlanReturned =>
        /\ plan.queryOptions.ExcludeRecommends =>
             \A id \in 1..Len(Pkgs) :
                Cardinality(Positions(id)) = 1 =>
                    \A g \in 1..Len(EdgesFrom(id)) :
                        g <= Len(Pkgs[id].depends) =>
                            \E oi \in 1..Len(Pkgs[id].depends[g]) :
                                /\ ~Pkgs[id].depends[g][oi].recommended
                                /\ Answers(EdgesFrom(id)[g][2],
                                           Pkgs[id].depends[g][oi])
        /\ (pdb = 4 /\ OnlyRequested(13)) =>
             IF plan.queryOptions.ExcludeRecommends
             THEN plan.Packages = <<15, 13>>
             ELSE plan.Packages = <<14, 13>>

\* a was planned with ExcludeRecommends: c came with it, b did not.
C12_Witness ==
    /\ PlanReturned
    /\ pres.op = "make"
    /\ pdb = 4
    /\ OnlyRequested(13)
    /\ plan.queryOptions.ExcludeRecommends
    /\ plan.Packages = <<15, 13>>

(***************************************************************************)
(* Properties of the distribution mirror                                   *)
(***************************************************************************)
\* The mirror answered the GET of the Build call of worker w with resp.
Answered(w, resp) == {"GET", resp} \subseteq worker[w].did

\* C13: a Build whose GET <server>/result/<h> was answered with 200 never
\* calls def.Build, and when it returns the artifact it returns as
\* downloaded: bin holds the response body, .def, .downloaded and
\* .redistributable exist and h is in the build cache.
C13_DownloadInsteadOfBuild ==
    \A w \in Workers :
        Answered(w, "200") =>
            /\ distributionServer # ""
            /\ Redistributable(worker[w].def)
            /\ "def.Build" \notin worker[w].did
            /\ ReturnedOk(w) =>
                 /\ worker[w].ret.at = "Downloaded"
                 /\ bin[H(w)] = Bytes(ArtLen, "mirror")
                 /\ H(w) \in defFile
                 /\ H(w) \in downloadedTag
                 /\ H(w) \in redistributableTag
                 /\ H(w) \in buildCache

\* A Build returned the artifact that the mirror supplied.
C13_Witness ==
    /\ ReturnedOk(1)
    /\ Answered(1, "200")
    /\ worker[1].ret.at = "Downloaded"
    /\ bin[H(1)] = Bytes(ArtLen, "mirror")
    /\ H(1) \in downloadedTag \cap redistributableTag \cap buildCache

\* C14: the status recorded for a definition whose artifact the mirror
\* supplied is Downloaded, which is neither Built nor Cached.
C14_RecordedAsDownloaded ==
    \A w \in Workers :
        (ReturnedOk(w) /\ Answered(w, "200")) =>
            buildStatuses[worker[w].def] \notin {BuildStatusBuilt, BuildStatusCached}

\* C15: .downloaded exists only while the bytes in bin are those that the
\* mirror supplied; after a local rebuild has replaced bin it is gone.
C15_DownloadedTagTruthful ==
    \A h \in Hashes :
        h \in downloadedTag => Exists(bin[h]) /\ bin[h].src = "mirror"

\* C16: Build asks the mirror only with a server configured and a
\* redistributable definition; after a 404 it goes on to def.Build; after
\* any other failure of the GET it returns an error, has not called
\* def.Build and has created neither bin nor .downloaded nor
\* .redistributable.
C16_MirrorAnswers ==
    \A w \in Workers :
        /\ "GET" \in worker[w].did =>
             distributionServer # "" /\ Redistributable(worker[w].def)
        /\ Answered(w, "404") =>
             \/ worker[w].pc = "build"
             \/ "def.Build" \in worker[w].did
        /\ (Answered(w, "500") \/ Answered(w, "transport")) =>
             /\ ReturnedErr(w)
             /\ worker[w].ret.at = "GET"
             /\ "def.Build" \notin worker[w].did
             /\ ~worker[w].binAtStart =>
                  /\ ~Exists(bin[H(w)])
                  /\ H(w) \notin downloadedTag
                  /\ H(w) \notin redistributableTag

\* The mirror answered with a bad status and Build returned the error.
C16_Witness ==
    /\ Answered(1, "500")
    /\ ReturnedErr(1)
    /\ ~Exists(bin[H(1)])
    /\ H(1) \in defFile

\* The mirror answered 404 and Build built the artifact locally.
C16_WitnessMiss ==
    /\ Answered(1, "404")
    /\ ReturnedOk(1)
    /\ worker[1].ret.at = "Built"
    /\ bin[H(1)] = Bytes(ArtLen, "local")

(***************************************************************************)
(* Properties of repeated builds                                           *)
(***************************************************************************)
\* C17: a Build that finds the artifact of an identical definition built
\* before in this process does not call def.Build, returns the complete bin
\* and records the status Cached for its definition.
C17_SecondBuildCached ==
    \A w \in Workers :
        (ReturnedOk(w) /\ worker[w].ret.at = "CacheHit") =>
            /\ "def.Build" \notin worker[w].did
            /\ Complete(bin[H(w)])
            /\ buildStatuses[worker[w].def] = BuildStatusCached

(***************************************************************************)
(* Properties of the template mode                                         *)
(***************************************************************************)
\* Build of the definition in template mode has returned to worker w.
TemplateReturned(w) == ReturnedFrom(w) /\ worker[w].def = TemplateDef

\* C18 as stated: a Build in template mode never returns an artifact: it
\* returns an error, the sentinel unless something failed, creates no bin
\* and does not put the hash in the build cache; and MakeTemplate returns
\* the path exactly for the sentinel, another error unchanged, and
\* "failed to write template output" for a success.
C18_TemplateNeverArtifact ==
    \A w \in Workers :
        TemplateReturned(w) =>
            /\ ReturnedErr(w)
            /\ Exists(bin[H(w)]) => worker[w].binAtStart
            /\ H(w) \notin buildCache
            /\ MakeTemplateReturns(worker[w].ret) = "path"
                 <=> worker[w].ret.at = "TemplateBuilt"

\* What holds of the template mode: unless the hash is in the in-memory
\* build cache, a Build in template mode returns an error, creates no bin
\* and does not put the hash in the cache; from the cache it returns the
\* artifact built before and MakeTemplate fails.
TemplateUnlessCached ==
    \A w \in Workers :
        TemplateReturned(w) =>
            /\ worker[w].ret.at # "CacheHit" =>
                 /\ ReturnedErr(w)
                 /\ H(w) \notin buildCache
            /\ worker[w].ret.at = "CacheHit" =>
                 /\ ReturnedOk(w)
                 /\ H(w) \in buildCache
                 /\ MakeTemplateReturns(worker[w].ret)
                      = "failed to write template output"
            /\ Exists(bin[H(w)]) => worker[w].binAtStart
            /\ MakeTemplateReturns(worker[w].ret) = "path"
                 <=> worker[w].ret.at = "TemplateBuilt"
            /\ MakeTemplateReturns(worker[w].ret) = "err"
                 <=> (ReturnedErr(w) /\ worker[w].ret.at # "TemplateBuilt")

\* The builder returned the sentinel and MakeTemplate returns its path.
TemplateWritten ==
    /\ TemplateReturned(1)
    /\ worker[1].ret.at = "TemplateBuilt"
    /\ "def.Build" \in worker[1].did
    /\ H(1) \in defFile
    /\ ~Exists(bin[H(1)])
    /\ MakeTemplateReturns(worker[1].ret) = "path"

(***************************************************************************)
(* Properties of the definition store                                      *)
(***************************************************************************)
\* C19: GetDefinitionByHash never returns a definition whose hash is not the
\* hash that was asked for; a .def that does not re-hash to its name is
\* rejected with an error.
C19_RejectsWrongHash ==
    got.kind = "ok" => got.rehash = got.hash

(***************************************************************************)
(* Properties of the distribution server setting                           *)
(***************************************************************************)
\* C20: SetDistributionServer makes a server the distribution server only
\* if its GET /health answers with status 200 and the body OK; otherwise the
\* server configured before stays.
C20_OnlyHealthyServer ==
    [][(distributionServer' # distributionServer /\ distributionServer' # "")
          => health[distributionServer'] = Healthy]_bvars

(***************************************************************************)
(* Properties of the repository loading                                    *)
(***************************************************************************)
\* The loading has come to rest: FetchAll returned, or no worker of
\* StartAutoRefresh holds fetched packages it has not yet put into the map.
LoadingAtRest ==
    \/ fa.pc = "returned"
    \/ /\ pool[1].pc # "off"
       /\ \A i \in 1..maxParallelFetchers : pool[i].pc # "merge"

\* C21: when one fetcher fails, the packages of every fetcher that succeeded
\* are in the package map once the loading has come to rest; this for
\* FetchAll and for the workers of StartAutoRefresh.
C21_OthersStillLoaded ==
    LoadingAtRest => \A f \in fetcherPackages : f \in packageMap

\* C22: at every moment at most maxParallelFetchers goroutines are executing
\* fetchWithKey, under StartAutoRefresh and under FetchAll in parallel mode.
C22_PoolBound ==
    Cardinality(ExecutingFetch) <= maxParallelFetchers

\* The goroutines that are using map m, and those that are writing it.
Using(m) ==
    {t \in Workers : macc[t].pc = "access" /\ MapOps[macc[t].op].map = m}

Writing(m) == {t \in Using(m) : MapOps[macc[t].op].write}

\* C23: every use of packageMap and of buildStatuses is made holding the
\* mutex of the map, so no use of a map overlaps with a write to it.
C23_MapsExcluded ==
    \A m \in Maps :
        /\ \A t \in Using(m) : mapMutex[m] = t
        /\ \A t \in Writing(m) : Using(m) = {t}

(***************************************************************************)
(* Properties of the mirror table                                          *)
(***************************************************************************)
\* The string is mirror://name followed by a suffix.
IsMirrorUrl(urlStr) ==
    /\ Len(urlStr) >= 3
    /\ urlStr[1] = "mirror"
    /\ urlStr[2] = "://"
    /\ urlStr[3] \in MirrorNames

\* What UrlsFor has to return for u.urlStr when the mirror table is table.
UrlsForKeeps(u, table) ==
    /\ (~ParseFails(u.urlStr) /\ Scheme(u.urlStr) # "mirror")
       => (u.err = "nil" /\ u.ret = <<u.urlStr>>)
    /\ (IsMirrorUrl(u.urlStr) /\ ~ParseFails(u.urlStr)
          /\ u.urlStr[3] \in DOMAIN table)
       => /\ u.err = "nil"
          /\ Len(u.ret) = Len(table[u.urlStr[3]])
          /\ \A i \in 1..Len(u.ret) :
               u.ret[i] = <<table[u.urlStr[3]][i]>>
                             \o SubSeq(u.urlStr, 4, Len(u.urlStr))
    /\ (IsMirrorUrl(u.urlStr) /\ ~ParseFails(u.urlStr)
          /\ u.urlStr[3] \notin DOMAIN table)
       => (u.err = "not defined" /\ u.ret = <<>>)

\* C24: UrlsFor(u) returns [u] for a URL whose scheme is not mirror; for
\* mirror://name/suffix with a registered name it returns, in the order of
\* the registered list, each base followed by everything after
\* mirror://name; for a name that is not registered it returns an error and
\* no URLs.
C24_UrlsFor == [][urls' # urls => UrlsForKeeps(urls', mirrors)]_bvars

\* A mirror URL with a suffix was expanded over two different bases.
C24_Witness ==
    /\ IsMirrorUrl(urls.urlStr)
    /\ Len(urls.urlStr) >= 4
    /\ urls.err = "nil"
    /\ Len(urls.ret) = 2
    /\ urls.ret[1] # urls.ret[2]

(***************************************************************************)
(* Properties of the virtual directory tree                                *)
(***************************************************************************)
\* C25: writes to the tree are last-write-wins: after an entry was created
\* at a path without error (by ExtractEntry or CreateChild), the tree
\* returns that entry for the path, also when the path held an entry before.
C25_LastWriteWins ==
    (dres.op \in {"ExtractEntry", "CreateChild"} /\ dres.err = "nil")
        => /\ OpenPath(root, dres.path).err = "nil"
           /\ OpenPath(root, dres.path).file = dres.file

(***************************************************************************)
(* Properties of the cache check of Build                                  *)
(***************************************************************************)
\* Worker w makes the check of lines 588-627 in this step with an existing
\* <h>.bin and always_rebuild false.
ChecksExistingBin(w) ==
    /\ worker[w].pc = "check"
    /\ worker'[w].pc # "check"
    /\ ~worker[w].always
    /\ Exists(bin[H(w)])

ReturnedCached(wrec) ==
    wrec.pc = "idle" /\ wrec.ret = [kind |-> "ok", at |-> "Cached"]

C26_WitnessDownloaded ==
    /\ ReturnedCached(worker[1])
    /\ H(1) \in downloadedTag
    /\ RebuildUserDefinitions = FALSE

(***************************************************************************)
(* Properties of the in-memory build cache                                 *)
(***************************************************************************)
\* Build(def, opts) is called by worker w in this step.
EntersBuild(w) ==
    /\ worker[w].pc = "idle"
    /\ worker'[w] # worker[w]
    /\ worker'[w].pc # "idle" \/ worker'[w].ret # NoRet

\* C27: if the hash of the definition is in the build cache, Build returns
\* the cached handle, for any build options, and touches nothing else: no
\* file is looked at, created, written or renamed, NeedsBuild and def.Build
\* are not called, the mirror is not contacted and the build-status map is
\* unchanged.
C27_CacheHitTouchesNothing ==
    [][\A w \in Workers :
         (EntersBuild(w) /\ HashDefinition(worker'[w].def) \in buildCache)
           => /\ worker'[w].pc = "idle"
              /\ worker'[w].ret = [kind |-> "ok", at |-> "CacheHit"]
              /\ worker'[w].did = {}
              /\ UNCHANGED <<bin, tmp, tags, buildCache, buildStatuses>>]_bvars

\* A Build with always_rebuild was answered from the build cache.
C27_Witness ==
    /\ worker[1].ret = [kind |-> "ok", at |-> "CacheHit"]
    /\ worker[1].always
    /\ H(1) \in buildCache

(***************************************************************************)
(* Properties of the results of def.Build                                  *)
(***************************************************************************)
\* def.Build of worker w returns a nil result without error in this step.
DefBuildReturnsNil(w) ==
    /\ worker[w].pc = "build"
    /\ "def.Build=nil" \in worker'[w].did

\* C28: when def.Build returns a nil result without error, Build records
\* the status Cached and returns a handle to <h>.bin without opening or
\* writing <h>.bin.tmp, without renaming and without changing the bytes of
\* <h>.bin, and the artifact the handle refers to exists.
C28_NilResultIsCached ==
    [][\A w \in Workers :
         DefBuildReturnsNil(w) =>
           /\ worker'[w].pc = "idle"
           /\ worker'[w].ret.kind = "ok"
           /\ buildStatuses'[worker[w].def] = BuildStatusCached
           /\ worker'[w].did \cap {"Create", "WriteResult", "Rename"} = {}
           /\ UNCHANGED <<bin, tmp>>
           /\ Exists(bin'[H(w)])]_bvars

\* A Build ended with the nil result of def.Build.
C28_Witness ==
    /\ worker[1].pc = "idle"
    /\ worker[1].ret.kind = "ok"
    /\ "def.Build=nil" \in worker[1].did
    /\ buildStatuses[worker[1].def] = BuildStatusCached

\* The engine renames the tmp file of worker w in this step (lines 719-723).
EngineRenames(w) == worker[w].pc = "rename" /\ worker'[w].pc = "finish"

\* C29: when def.Build created the tmp file itself the engine never opens
\* <h>.bin.tmp: it calls WriteResult(nil) and then renames; otherwise the
\* engine creates tmp, passes it to WriteResult, closes it and then renames.
\* In both cases the rename is made only after WriteResult returned without
\* error.
C29_WriteThenRename ==
    [][\A w \in Workers :
         /\ (worker'[w].created /\ "def.Build" \in worker'[w].did)
              => "Create" \notin worker'[w].did
         /\ (worker[w].pc = "writenil" /\ worker'[w] # worker[w])
              => /\ worker[w].created
                 /\ "WriteResult" \in worker'[w].did
         /\ EngineRenames(w)
              => /\ "WriteResult" \in worker[w].did
                 /\ "WriteResult=err" \notin worker[w].did
                 /\ worker[w].fd = "none"
                 /\ worker[w].created <=> "Create" \notin worker[w].did
                 /\ bin'[H(w)] = tmp[H(w)]]_bvars

\* A Build whose builder created tmp itself ended with the engine's rename.
C29_Witness ==
    /\ worker[1].pc = "idle"
    /\ worker[1].ret = [kind |-> "ok", at |-> "Built"]
    /\ worker[1].created
    /\ {"WriteResult", "Rename"} \subseteq worker[1].did

C29_WitnessEngineWrites ==
    /\ worker[1].pc = "idle"
    /\ worker[1].ret = [kind |-> "ok", at |-> "Built"]
    /\ ~worker[1].created
    /\ {"Create", "WriteResult", "Rename"} \subseteq worker[1].did

(***************************************************************************)
(* Properties of the installed-name check of the planner                   *)
(***************************************************************************)
\* plan.add(Q) is made in this step while a package is installed under the
\* short name of Q.
AddsInstalledName ==
    /\ pres'.op = "add"
    /\ pres'.adds = pres.adds + 1
    /\ getInstalled(plan, pres'.query) # 0

\* The query of this step was taken as satisfied by the plan: an edge to the
\* installed package was recorded and nothing else was done.
TakenAsSatisfied ==
    /\ pres'.err = NoErr
    /\ plan'.Packages = plan.Packages
    /\ plan'.installed = plan.installed
    /\ plan'.dependencyGraph =
         Append(plan.dependencyGraph, <<0, getInstalled(plan, pres'.query)>>)

\* C30: a query Q is taken as satisfied by the plan only if the version
\* recorded for short_name(Q) satisfies the version predicate of Q; when
\* the installed version does not satisfy Q the query is not taken as
\* satisfied.
C30_SatisfiedOnlyIfVersionMatches ==
    [][(AddsInstalledName /\ TakenAsSatisfied)
          => versionMatches(checkName(plan, pres'.query).ver,
                            pres'.query.pred)]_bvars

\* Nothing is installed in the plan pl.
NothingInstalled(pl) ==
    /\ pl.made = "incremental"
    /\ \A n \in Names : pl.installedPackages[n] = 0

\* The package whose conflict check was the last one made: the edge to it is
\* the last one recorded.
LastPicked(pl) == pl.dependencyGraph[Len(pl.dependencyGraph)][2]

\* In the plan pl a conflict of pkg is matched by a name that is recorded
\* for pkg itself.
ConflictsWithItself(pl, pkg) ==
    \E i \in 1..Len(Pkgs[pkg].conflicts) :
        \E j \in 1..Len(Pkgs[pkg].conflicts[i]) :
            LET option == Pkgs[pkg].conflicts[i][j] IN
            /\ getInstalled(pl, option) = pkg
            /\ versionMatches(checkName(pl, option).ver, option.pred)

\* C31: a package does not conflict with itself: an add to a plan in which
\* nothing is installed never fails with a conflict error because of a name
\* that the package itself provides, its own short name included.
C31_NoSelfConflict ==
    [][(/\ pres'.op = "add"
        /\ pres'.adds = pres.adds + 1
        /\ NothingInstalled(plan)
        /\ pres'.err.kind = "Conflict")
          => ~ConflictsWithItself(plan', LastPicked(plan'))]_bvars

\* C36: a failed add on an incremental plan leaves the plan unchanged: the
\* maps installed and installedPackages and the list Packages are as before
\* the call, and every short name recorded as installed refers to a package
\* that is in plan.Packages.
C36_FailedAddLeavesPlan ==
    [][(/\ pres'.op = "add"
        /\ pres'.adds = pres.adds + 1
        /\ pres'.err.kind \in {"NotFound", "Conflict", "Unresolved", "Search"})
          => /\ plan'.installed = plan.installed
             /\ plan'.installedPackages = plan.installedPackages
             /\ plan'.Packages = plan.Packages
             /\ \A n \in Names :
                  getInstalled(plan', Want(n)) # 0
                      => getInstalled(plan', Want(n)) \in {plan'.Packages[i] : i \in 1..Len(plan'.Packages)}]_bvars

\* In the plan pl the package A declares a conflict that is matched by a
\* name and version under which the package B is installed.
ConflictsWith(pl, A, B) ==
    \E i \in 1..Len(Pkgs[A].conflicts) :
        \E j \in 1..Len(Pkgs[A].conflicts[i]) :
            LET option == Pkgs[A].conflicts[i][j] IN
            /\ getInstalled(pl, option) = B
            /\ versionMatches(checkName(pl, option).ver, option.pred)

\* C37: every plan the planner returns is conflict-free in both directions:
\* no package of plan.Packages declares a conflict that is matched by a name
\* under which another package of plan.Packages is installed, whichever of
\* the two was added first.
C37_ConflictFree ==
    (plan.made \in {"make", "incremental"} /\ pres.err = NoErr)
        => \A a \in 1..Len(plan.Packages), b \in 1..Len(plan.Packages) :
              a # b => ~ConflictsWith(plan, plan.Packages[a], plan.Packages[b])

\* The names of the children that the root holds.
Children(dir) == {q \in DOMAIN dir.entries : Len(q) = 1}

\* C32: after any sequence of Create, Mkdir and Unlink on an in-memory
\* directory, Readdir returns exactly the children that are in the
\* directory, each once and each with a File that is not nil: no name that
\* was unlinked and no name twice.
C32_ReaddirExact ==
    LET r == Readdir(root) IN
    /\ {r[i].Name : i \in 1..Len(r)} = Children(root)
    /\ \A i, j \in 1..Len(r) : r[i].Name = r[j].Name => i = j
    /\ \A i \in 1..Len(r) :
         r[i].File # NilFile /\ r[i].File = root.entries[r[i].Name]

\* C33: FetchAll terminates, with nil or with an error, in both modes when
\* every fetch terminates; with NoParallel set it returns after the last
\* sequential fetch.
C33_FetchAllTerminates == (fa.pc = "loop") ~> (fa.pc = "returned")

\* C34: every goroutine that FetchAll started eventually terminates, also
\* when FetchAll returned on the first error: none stays blocked in its send
\* on the channel errors.
C34_GoroutinesTerminate ==
    \A f \in Fetchers : (fthread[f] = "fetching") ~> (fthread[f] = "done")

\* Worker i is in fetchWithKey for a fetcher, or copies its Packages.
Refreshing(i) == pool[i].pc \in {"fetching", "merge"}

\* C35: under StartAutoRefresh no fetcher is refreshed by two workers at the
\* same time: while a worker copies the Packages of a fetcher into the
\* package map, no other worker executes fetchWithKey for that fetcher.
C35_OneRefreshPerFetcher ==
    \A i, j \in 1..maxParallelFetchers :
        (i # j /\ pool[i].pc = "merge" /\ Refreshing(j))
            => pool[i].fetcher # pool[j].fetcher

\* C38: OpenPath, Mkdir and CreateChild terminate on every tree and path,
\* also when a component of the path before the last is a symbolic link that
\* points to itself or is part of a cycle of links: they return an error and
\* resolveDirectory does not recurse without bound.
C38_PathCallsTerminate ==
    dres.op \in {"OpenPath", "Mkdir", "CreateChild"}
        => dres.err # "stack overflow"

\* C39: the web application tracks at most one VM process and its running
\* flag matches reality: runningCmd is not nil only if exactly one process
\* that was started and not killed exists, and it is the process of
\* runningCmd; a start while a VM runs leaves no earlier process untracked,
\* and a start whose process fails to launch leaves runningCmd nil.
C39_TracksOneVm ==
    /\ runningCmd.set => procs = {runningCmd.proc}
    /\ ~runningCmd.set => procs = {}

\* C40: CombineConditions(a, b) is the conjunction of its arguments: for
\* every package name n, CombineConditions(a, b).Satisfies(n) is Matched if
\* and only if a.Satisfies(n) and b.Satisfies(n) are both Matched, also
\* when a is an OrCondition.
C40_CombineIsConjunction ==
    cond.pc = "checked"
        => (cond.res = "Matched"
              <=> (CondSatisfies(cond.a, cond.name)
                     /\ CondSatisfies(cond.b, cond.name)))

====
